---- MODULE Spec2Model ----
(***************************************************************************)
(* GitPulse: the pipeline engine (internal/engine/engine.go), its          *)
(* triggers (main.go) and the LLM-backed stages it drives                  *)
(* (internal/ai/model.go, internal/ai/review.go).                          *)
(*                                                                         *)
(* The specifications of this module:                                      *)
(*   Spec      - the engine's tasks: the event task (Run/bufferChanges),   *)
(*               the main task (stdin, SIGUSR1, quit) and the safety-timer *)
(*               callback, interleaved at their lock boundaries.  A call   *)
(*               of processChanges is an interval (entered .. returned).   *)
(*   PipeSpec  - one call of processChanges, stage by stage, on a          *)
(*               ChangeSet handed over by Flush.                           *)
(*   HistSpec  - the history store over successive Flushes, one store      *)
(*               call at a time.                                           *)
(*   RaceSpec  - two overlapping Flushes on the store, access by access.   *)
(*   WatchSpec - the watcher's event loop with its ignore patterns and its *)
(*               debounce timers.                                          *)
(*   GateSpec  - one call of reviewLoopWithRecord in full, with the        *)
(*               working copy, the patches and the re-fetch of the diffs.  *)
(*   DashSpec  - the dashboard server's requests on its store.             *)
(*   PushSpec  - one run of `gitpulse push`, from the PID file to the      *)
(*               signal.                                                   *)
(* FairSpec is Spec with the fairness the Go scheduler and the timer give. *)
(***************************************************************************)
EXTENDS Integers, Sequences, FiniteSets, TLC

(***************************************************************************)
(* Bounds of the model.                                                    *)
(***************************************************************************)
\* total number of FileChanges the watcher delivers in one run
MaxChanges == 3
\* longest ChangeSet the watcher delivers
MaxSetLen == 2

\* paths of the working copy that change (relative to the root)
Paths == {"a/x.go", "a/x_test.go", "b/y.go"}

\* the tasks that can execute Flush: the main task and the timer callback
Flushers == {"main", "timer"}

VARIABLES
    pending,        \* Engine.pending: the buffered FileChanges
    nextId,         \* number of FileChanges delivered so far (their identity)
    evPc,           \* event task (Run): "idle" | "rearm" | "returned"
    safetyTimer,    \* Engine.safetyTimer: "nil" | "armed" | "stopped" | "fired"
    Interactive,    \* Engine.Interactive
    fl,             \* per flusher: pc, trigger, files, mark, edits
    handed,         \* per FileChange id: how often it was given to processChanges
    done,           \* Engine.done is closed
    exited,         \* the process has exited
    \* ---- one call of processChanges (PipeSpec) ----
    ppc,            \* position in processChanges
    trigger,        \* what started the Flush that made this call
    cfg,            \* config.Config: AI.CodeReview, AutoPush
    changeset,      \* the ChangeSet handed over by Flush
    pregroups,      \* processChanges' groups: what grouper.PreGroup returned
    refined,        \* the groups after step 3 (refine and fallback)
    llm,            \* what the LLM answered to the refine call
    iteration,      \* reviewLoopWithRecord's loop counter
    review,         \* counters of the gate: ReviewCode calls, prompts, failure
    reviewRecord,   \* the *store.ReviewRecord kept for the commit records
    index,          \* the VCS index: paths staged and not yet committed
    gi,             \* position of the stage+commit loop in refined
    commits,        \* the commits made by this call, in order
    commitHashes,   \* processChanges' commitHashes: the hashes kept for MarkPushed
    \* ---- the history store over successive Flushes (HistSpec) ----
    records,        \* Store.records: the history in memory
    disk,           \* the history file: absent, a JSON array, or corrupt
    clock,          \* time.Now, as the number of readings taken so far
    hflush,         \* the Flush in progress: its position and its locals
    lastCall,       \* the store call made by the last step
    ledger,         \* what happened so far: which Flush made which hash, ...
    \* ---- two overlapping Flushes on the store (RaceSpec) ----
    heap,           \* the arrays that back Store.records, by address
    slice,          \* Store.records: the slice header (array, len, cap)
    racer,          \* per flusher: position in Save / MarkPushed and locals
    \* ---- the watcher's debouncer (WatchSpec) ----
    watcher,        \* the Watcher: ignorePatterns, the directories watched, and
                    \* whether its events channel has been closed
    wloop,          \* the event loop of Start: its position and its locals
    wpending,       \* Start's `pending`, shared with the timer callbacks
    wtimers,        \* the timers made by time.AfterFunc, oldest first
    wevents,        \* Watcher.events: the ChangeSets sent and not yet received
    wledger,        \* what happened so far: events accepted, ChangeSets sent
    \* ---- the review gate with the working copy (GateSpec) ----
    gate,           \* reviewLoopWithRecord: position, iteration, result, action
    ggroups,        \* reviewLoopWithRecord's groups, with their Diffs
    grecord,        \* reviewLoopWithRecord's record (*store.ReviewRecord)
    worktree,       \* the working copy: the content of each file, and HEAD
    gledger,        \* what happened so far: the rounds, the last fix, ...
    \* ---- the push command (PushSpec) ----
    pushc,          \* `gitpulse push`: its position, what it has read, its exit
    \* ---- the dashboard server (DashSpec) ----
    response        \* the response to the last request served

pipeVars == <<ppc, trigger, cfg, changeset, pregroups, refined, llm, iteration, review,
              reviewRecord, index, gi, commits, commitHashes>>

engineVars == <<pending, nextId, evPc, safetyTimer, fl, handed, done, exited>>

storeVars == <<records, disk, clock, hflush, lastCall, ledger>>

raceVars == <<heap, slice, racer>>

watchVars == <<watcher, wloop, wpending, wtimers, wevents, wledger>>

gateVars == <<gate, ggroups, grecord, worktree, gledger>>

dashVars == <<response>>

cmdVars == <<pushc>>

vars == <<pending, nextId, evPc, safetyTimer, Interactive, fl, handed, done, exited,
          ppc, trigger, cfg, changeset, pregroups, refined, llm, iteration,
          review, reviewRecord, index, gi, commits, commitHashes,
          records, disk, clock, hflush, lastCall, ledger,
          heap, slice, racer,
          watcher, wloop, wpending, wtimers, wevents, wledger,
          gate, ggroups, grecord, worktree, gledger,
          response, pushc>>

----------------------------------------------------------------------------
(***************************************************************************)
(* Helpers on sequences.                                                   *)
(***************************************************************************)
Range(s) == {s[i] : i \in 1..Len(s)}

SeqsUpTo(S, n) == UNION {[1..k -> S] : k \in 1..n}

Occurrences(s, x) == Cardinality({i \in 1..Len(s) : s[i] = x})

----------------------------------------------------------------------------
(***************************************************************************)
(* Engine: state after New (engine.go) and main's setup (main.go).         *)
(***************************************************************************)
IdleFlusher ==
    [pc |-> "idle", trigger |-> "none", files |-> <<>>, mark |-> 0, edits |-> {}]

\* watcher.FileChange{Path}; id is the identity of the event that made it
FileChange(i, p) == [id |-> i, Path |-> p]

\* the Files of the ChangeSet made of paths ps, the first with identity n
TagFiles(ps, n) == [i \in 1..Len(ps) |-> FileChange(n + i - 1, ps[i])]

EngineInit ==
    /\ pending = <<>>
    /\ nextId = 0
    /\ evPc = "idle"
    /\ safetyTimer = "nil"
    /\ fl = [t \in Flushers |-> IdleFlusher]
    /\ handed = [i \in {} |-> 0]
    /\ done = FALSE
    /\ exited = FALSE

\* time.Timer.Stop: an armed timer is stopped; a fired or stopped one stays
TimerStop(tm) == IF tm = "armed" THEN "stopped" ELSE tm

\* a bufferChanges that overwrites the buffer instead of appending to it
AppendPendingOverwrite(buf, files) == files

\* e.pending = append(e.pending, changeset.Files...)
AppendPending(buf, files) == buf \o files

\* a drain that copies the buffer and forgets to clear it
DrainPendingKeep(buf) == [files |-> buf, rest |-> buf]

\* files := copy(e.pending); e.pending = nil
DrainPending(buf) == [files |-> buf, rest |-> <<>>]

(***************************************************************************)
(* Event task: Run receives a ChangeSet and calls bufferChanges, which     *)
(* appends under mu and then re-arms the safety timer under timerMu.       *)
(* The ChangeSet is the watcher's report of writes in the watched tree:    *)
(* src is "none" for a write from elsewhere, or the flusher whose          *)
(* processChanges made it through the review gate (applyAIFixes' WriteFile *)
(* or the operator's edit while WaitForManualFix waits) to files of its    *)
(* ChangeSet; fl[src].edits keeps the identities of those events.          *)
(***************************************************************************)
bufferChanges(ps, src) ==
    /\ ~exited
    /\ evPc = "idle"
    /\ nextId + Len(ps) <= MaxChanges
    /\ src # "none" =>
           /\ Interactive
           /\ fl[src].pc = "running"
           /\ Len(ps) > 0
           /\ Range(ps) \subseteq {fl[src].files[k].Path : k \in 1..Len(fl[src].files)}
    /\ fl' = IF src = "none" THEN fl
             ELSE [fl EXCEPT ![src].edits = @ \cup (nextId..(nextId + Len(ps) - 1))]
    /\ pending' = AppendPending(pending, TagFiles(ps, nextId))
    /\ nextId' = nextId + Len(ps)
    /\ handed' = [i \in 0..(nextId + Len(ps) - 1) |->
                     IF i < nextId THEN handed[i] ELSE 0]
    /\ evPc' = "rearm"
    /\ UNCHANGED <<watchVars, gateVars, dashVars, cmdVars, safetyTimer, Interactive, done, exited, pipeVars, storeVars, raceVars>>

resetSafetyTimer ==
    /\ ~exited
    /\ evPc = "rearm"
    /\ safetyTimer' = "armed"
    /\ evPc' = "idle"
    /\ UNCHANGED <<watchVars, gateVars, dashVars, cmdVars, pending, nextId, Interactive, fl, handed, done, exited, pipeVars, storeVars, raceVars>>

\* Run's select takes the closed done channel and returns
RunReturn ==
    /\ ~exited
    /\ evPc = "idle"
    /\ done
    /\ evPc' = "returned"
    /\ UNCHANGED <<watchVars, gateVars, dashVars, cmdVars, pending, nextId, safetyTimer, Interactive, fl, handed, done, exited, pipeVars, storeVars, raceVars>>

(***************************************************************************)
(* Safety timer: the armed timer fires and starts its callback, which      *)
(* looks at the buffer under mu and calls Flush when it is non-empty.      *)
(* One callback is followed at a time: a timer armed while the callback of *)
(* an earlier one is still in Flush fires once that callback has returned. *)
(***************************************************************************)
TimerFire ==
    /\ ~exited
    /\ safetyTimer = "armed"
    /\ fl["timer"].pc = "idle"
    /\ safetyTimer' = "fired"
    /\ fl' = [fl EXCEPT !["timer"].pc = "check"]
    /\ UNCHANGED <<watchVars, gateVars, dashVars, cmdVars, pending, nextId, evPc, Interactive, handed, done, exited, pipeVars, storeVars, raceVars>>

TimerCallback ==
    /\ ~exited
    /\ fl["timer"].pc = "check"
    /\ LET hasPending == Len(pending) > 0
       IN  fl' = [fl EXCEPT !["timer"] =
                    IF hasPending
                    THEN [@ EXCEPT !.pc = "flush", !.trigger = "timer"]
                    ELSE IdleFlusher]
    /\ UNCHANGED <<watchVars, gateVars, dashVars, cmdVars, pending, nextId, evPc, safetyTimer, Interactive, handed, done, exited, pipeVars, storeVars, raceVars>>

(***************************************************************************)
(* Main task: the select loop of main.                                     *)
(***************************************************************************)
PendingCount == Len(pending)

\* case <-stdinCh: flush when PendingCount() > 0 (otherwise only a log line);
\* the buffer is looked at again, under mu, by FlushDrain
MainStdin ==
    /\ ~exited
    /\ fl["main"].pc = "idle"
    /\ PendingCount > 0
    /\ fl' = [fl EXCEPT !["main"].pc = "flush", !["main"].trigger = "stdin"]
    /\ UNCHANGED <<watchVars, gateVars, dashVars, cmdVars, pending, nextId, evPc, safetyTimer, Interactive, handed, done, exited, pipeVars, storeVars, raceVars>>

\* case <-usr1: eng.Flush()
MainSignal ==
    /\ ~exited
    /\ fl["main"].pc = "idle"
    /\ fl' = [fl EXCEPT !["main"].pc = "flush", !["main"].trigger = "signal"]
    /\ UNCHANGED <<watchVars, gateVars, dashVars, cmdVars, pending, nextId, evPc, safetyTimer, Interactive, handed, done, exited, pipeVars, storeVars, raceVars>>

\* case <-quit: eng.Stop(); return
Stop ==
    /\ ~exited
    /\ fl["main"].pc = "idle"
    /\ safetyTimer' = TimerStop(safetyTimer)
    /\ done' = TRUE
    /\ fl' = [fl EXCEPT !["main"].pc = "stopped"]
    /\ UNCHANGED <<watchVars, gateVars, dashVars, cmdVars, pending, nextId, evPc, Interactive, handed, exited, pipeVars, storeVars, raceVars>>

\* main returns: the process and every task in it end
Exit ==
    /\ ~exited
    /\ fl["main"].pc = "stopped"
    /\ exited' = TRUE
    /\ UNCHANGED <<watchVars, gateVars, dashVars, cmdVars, pending, nextId, evPc, safetyTimer, Interactive, fl, handed, done, pipeVars, storeVars, raceVars>>

(***************************************************************************)
(* Flush, by flusher t.                                                    *)
(***************************************************************************)
\* a Flush that copies and clears the buffer without looking at its length
FlushDrainUnchecked(t) ==
    /\ ~exited
    /\ fl[t].pc = "flush"
    /\ LET d == DrainPending(pending)
       IN  /\ pending' = d.rest
           /\ fl' = [fl EXCEPT ![t].pc = "cancel",
                               ![t].files = d.files,
                               ![t].mark = nextId]
    /\ UNCHANGED <<watchVars, gateVars, dashVars, cmdVars, nextId, evPc, safetyTimer, Interactive, handed, done, exited, pipeVars, storeVars, raceVars>>

\* lock mu; when empty, unlock and go to the "Nothing to flush" line; else
\* copy the buffer, clear it; unlock
FlushDrain(t) ==
    /\ ~exited
    /\ fl[t].pc = "flush"
    /\ IF Len(pending) = 0
       THEN /\ fl' = [fl EXCEPT ![t].pc = "nothing"]
            /\ UNCHANGED pending
       ELSE LET d == DrainPending(pending)
            IN  /\ pending' = d.rest
                /\ fl' = [fl EXCEPT ![t].pc = "cancel",
                                    ![t].files = d.files,
                                    ![t].mark = nextId]
    /\ UNCHANGED <<watchVars, gateVars, dashVars, cmdVars, nextId, evPc, safetyTimer, Interactive, handed, done, exited, pipeVars, storeVars, raceVars>>

\* lock timerMu; stop the timer; unlock; call processChanges(changeset)
FlushStopTimer(t) ==
    /\ ~exited
    /\ fl[t].pc = "cancel"
    /\ safetyTimer' = IF safetyTimer # "nil" THEN TimerStop(safetyTimer) ELSE safetyTimer
    /\ fl' = [fl EXCEPT ![t].pc = "running"]
    /\ handed' = [i \in DOMAIN handed |->
                    handed[i] + Occurrences([k \in 1..Len(fl[t].files) |-> fl[t].files[k].id], i)]
    /\ UNCHANGED <<watchVars, gateVars, dashVars, cmdVars, pending, nextId, evPc, Interactive, done, exited, pipeVars, storeVars, raceVars>>

\* processChanges returns to Flush
processChangesReturn(t) ==
    /\ ~exited
    /\ fl[t].pc = "running"
    /\ fl' = [fl EXCEPT ![t].pc = "done"]
    /\ UNCHANGED <<watchVars, gateVars, dashVars, cmdVars, pending, nextId, evPc, safetyTimer, Interactive, handed, done, exited, pipeVars, storeVars, raceVars>>

\* Flush returns to its caller: after processChanges, or after the
\* "Nothing to flush" line
FlushReturn(t) ==
    /\ ~exited
    /\ fl[t].pc \in {"done", "nothing"}
    /\ fl' = [fl EXCEPT ![t] = IdleFlusher]
    /\ UNCHANGED <<watchVars, gateVars, dashVars, cmdVars, pending, nextId, evPc, safetyTimer, Interactive, handed, done, exited, pipeVars, storeVars, raceVars>>

----------------------------------------------------------------------------
(***************************************************************************)
(* processChanges, stage by stage (PipeSpec).                              *)
(***************************************************************************)
\* longest ChangeSet handed to one call of processChanges
MaxFiles == 2

\* engine.go: const maxReviewIterations
maxReviewIterations == 3

\* model.go, engine.go: the fallback commit message
Sentinel == "chore: auto-commit changes"

\* a commit message written by the LLM
LLMMessage == "feat: describe the change"

\* a path the LLM can name that is not among the changed files
ForeignPath == "docs/z.md"

\* filepath.Dir, filepath.Base and the stem of the base name (extension
\* and a trailing "_test" split off) of the paths of the model
PathTable ==
    [p \in Paths \cup {ForeignPath} |->
        CASE p = "a/x.go"      -> [dir |-> "a", base |-> "x.go", stem |-> "x", test |-> FALSE]
          [] p = "a/x_test.go" -> [dir |-> "a", base |-> "x_test.go", stem |-> "x", test |-> TRUE]
          [] p = "b/y.go"      -> [dir |-> "b", base |-> "y.go", stem |-> "y", test |-> FALSE]
          [] OTHER             -> [dir |-> "docs", base |-> "z.md", stem |-> "z", test |-> FALSE]]

Dir(p) == PathTable[p].dir
Base(p) == PathTable[p].base

\* the Paths of a sequence of FileChanges, in order
PathsOf(files) == [k \in 1..Len(files) |-> files[k].Path]

\* all orders in which a Go map over the keys S can be ranged
MapOrders(S) ==
    {o \in [1..Cardinality(S) -> S] : \A i, j \in DOMAIN o : i # j => o[i] # o[j]}

RECURSIVE Flatten(_)
Flatten(ss) == IF ss = <<>> THEN <<>> ELSE Head(ss) \o Flatten(Tail(ss))

\* grouper.FileGroup (its Diffs, which decide no file and no message, are left out)
FileGroup(files, reason, msg) ==
    [Files |-> files, Reason |-> reason, CommitMessage |-> msg]

\* a PreGroup that forgets which files it has grouped: every file gets a
\* singleton group, also the files of a directory group
PreGroupForgetsGrouped(files, dirOrder) ==
    LET paths == PathsOf(files)
        dirGroups(d) == SelectSeq(paths, LAMBDA p : Dir(p) = d)
    IN  Flatten([k \in 1..Len(dirOrder) |->
                   IF Len(dirGroups(dirOrder[k])) > 1
                   THEN <<FileGroup(dirGroups(dirOrder[k]),
                                    <<"same package", dirOrder[k]>>, "")>>
                   ELSE <<>>])
        \o [k \in 1..Len(paths) |->
               FileGroup(<<paths[k]>>, <<"singletons", Base(paths[k])>>, "")]

\* grouper.PreGroup, ranging its directory map in the order dirOrder
PreGroup(files, dirOrder) ==
    LET paths == PathsOf(files)
        dirGroups(d) == SelectSeq(paths, LAMBDA p : Dir(p) = d)
        bases(d) == {PathTable[dirGroups(d)[k]].stem : k \in 1..Len(dirGroups(d))}
        merged(f) == PathTable[f].test /\ PathTable[f].stem \in bases(Dir(f))
        affinityDirs == {d \in Range(dirOrder) :
                            \E k \in 1..Len(dirGroups(d)) : merged(dirGroups(d)[k])}
        emitted(d) == Len(dirGroups(d)) > 1 \/ merged(dirGroups(d)[1])
        dirGroup(d) == FileGroup(dirGroups(d),
                                 <<IF d \in affinityDirs THEN "name affinity"
                                   ELSE "same package", d>>, "")
        multi == [k \in 1..Len(dirOrder) |->
                     IF emitted(dirOrder[k]) THEN <<dirGroup(dirOrder[k])>> ELSE <<>>]
        grouped == {p \in Range(paths) : emitted(Dir(p))}
        single == [k \in 1..Len(paths) |->
                     IF paths[k] \in grouped THEN <<>>
                     ELSE <<FileGroup(<<paths[k]>>, <<"singletons", Base(paths[k])>>, "")>>]
    IN  IF Len(files) = 0 THEN <<>> ELSE Flatten(multi) \o Flatten(single)

\* the directories of a ChangeSet: the keys of PreGroup's directory map
DirsOf(files) == {Dir(files[k].Path) : k \in 1..Len(files)}

(***************************************************************************)
(* The LLM's answers to the refine call.                                   *)
(*   transport - callClaude fails                                          *)
(*   malformed - the text is not JSON for the expected array; msgs[i] is   *)
(*               what happens to the per-group GenerateCommitMessage call: *)
(*               "ok" (a message), "blank" (an empty text), "err"          *)
(*   json      - the text is a JSON array; groups is its content           *)
(***************************************************************************)
Refined(files, reason, msg) ==
    [files |-> files, reason |-> reason, commit_message |-> msg]

EchoOf(groups) ==
    [k \in 1..Len(groups) |-> Refined(groups[k].Files, <<"llm", "">>, LLMMessage)]

JsonAnswers(groups) ==
    LET echo == EchoOf(groups)
        n == Len(groups)
        allFiles == Flatten([k \in 1..n |-> groups[k].Files])
        lastFiles == groups[n].Files
    IN  { echo,
          \* one group without a commit message
          [echo EXCEPT ![1].commit_message = ""],
          \* the last file of the last group is left out
          [echo EXCEPT ![n].files = SubSeq(lastFiles, 1, Len(lastFiles) - 1)],
          \* a file that is not among the changes
          [echo EXCEPT ![1].files = @ \o <<ForeignPath>>],
          \* the first file once more, in a group of its own
          echo \o <<Refined(<<allFiles[1]>>, <<"llm", "">>, LLMMessage)>>,
          \* everything in one group
          <<Refined(allFiles, <<"llm", "">>, LLMMessage)>>,
          \* no group at all
          <<>> }

RefineAnswers(groups) ==
    {[kind |-> "transport"]}
    \cup {[kind |-> "malformed", msgs |-> m] :
            m \in [1..Len(groups) -> {"ok", "blank", "err"}]}
    \cup {[kind |-> "json", groups |-> j] : j \in JsonAnswers(groups)}

\* ai.GenerateCommitMessage, given what the single-message call does
GenerateCommitMessage(outcome) ==
    CASE outcome = "err"   -> [msg |-> Sentinel, err |-> TRUE]
      [] outcome = "blank" -> [msg |-> Sentinel, err |-> FALSE]
      [] OTHER             -> [msg |-> LLMMessage, err |-> FALSE]

\* ai.RefineAndCommit
RefineAndCommit(groups, answer) ==
    CASE answer.kind = "transport" ->
            [groups |-> groups, err |-> TRUE]
      [] answer.kind = "malformed" ->
            [groups |-> [k \in 1..Len(groups) |->
                           LET r == GenerateCommitMessage(answer.msgs[k])
                           IN  IF ~r.err
                               THEN [groups[k] EXCEPT !.CommitMessage = r.msg]
                               ELSE groups[k]],
             err |-> FALSE]
      [] OTHER ->
            [groups |-> [k \in 1..Len(answer.groups) |->
                           FileGroup(answer.groups[k].files,
                                     answer.groups[k].reason,
                                     answer.groups[k].commit_message)],
             err |-> FALSE]

\* a fallback that leaves the messages as PreGroup made them
RefineFallbackKeep(groups) == groups

\* processChanges step 3: on an error of RefineAndCommit, the heuristic
\* groups with the sentinel in place of every empty message
RefineFallback(groups) ==
    [k \in 1..Len(groups) |->
        IF groups[k].CommitMessage = ""
        THEN [groups[k] EXCEPT !.CommitMessage = Sentinel]
        ELSE groups[k]]

(***************************************************************************)
(* The LLM's answers to the review call, and ReviewCode.                   *)
(***************************************************************************)
SeverityError == "error"
SeverityWarning == "warning"
SeverityInfo == "info"

Finding(file, severity) == [File |-> file, Severity |-> severity]

\* ok = FALSE: transport error or text that is not a JSON array of findings
ReviewAnswers(groups) ==
    LET f == IF Len(groups) > 0 /\ Len(groups[1].Files) > 0
             THEN groups[1].Files[1] ELSE ForeignPath
    IN  { [ok |-> FALSE, findings |-> <<>>],
          [ok |-> TRUE, findings |-> <<>>],
          [ok |-> TRUE, findings |-> <<Finding(f, "info")>>],
          [ok |-> TRUE, findings |-> <<Finding(f, "error")>>],
          [ok |-> TRUE, findings |-> <<Finding(f, "info"), Finding(f, "critical")>>] }

\* a ReviewCode that keeps whatever severity the LLM wrote
NormalizeSeverityKeep(sev) == sev

\* ReviewCode: a severity outside the three known ones becomes warning
NormalizeSeverity(sev) ==
    IF sev \in {SeverityError, SeverityWarning, SeverityInfo} THEN sev ELSE SeverityWarning

\* a ReviewCode for which every finding blocks
hasBlockersAny(findings) == Len(findings) > 0

\* ai.ReviewCode: HasBlockers, set for a finding of severity error or warning
hasBlockers(findings) ==
    \E k \in 1..Len(findings) : findings[k].Severity \in {SeverityError, SeverityWarning}

\* ai.ReviewCode
ReviewCode(answer) ==
    IF ~answer.ok
    THEN [err |-> TRUE, Findings |-> <<>>, HasBlockers |-> FALSE]
    ELSE LET findings == [k \in 1..Len(answer.findings) |->
                            [answer.findings[k] EXCEPT
                                !.Severity = NormalizeSeverity(@)]]
         IN  [err |-> FALSE, Findings |-> findings, HasBlockers |-> hasBlockers(findings)]

\* a *store.ReviewRecord: <<>> is nil, <<r>> points to r
Nil == <<>>

NewReviewRecord(result) ==
    <<[Findings |-> result.Findings, HasBlockers |-> result.HasBlockers,
       Action |-> "", FixesApplied |-> <<>>]>>

FixRecord(file, fixType) == [File |-> file, FixType |-> fixType]

\* reviewLoopWithRecord: the FixRecords tracked after the operator's action
FixesFor(action, findings) ==
    IF action = "aifix"
    THEN Flatten([k \in 1..Len(findings) |->
                    IF findings[k].Severity \in {SeverityError, SeverityWarning}
                    THEN <<FixRecord(findings[k].File, "ai")>> ELSE <<>>])
    ELSE IF action = "manual" THEN <<FixRecord("multiple", "manual")>>
    ELSE <<>>

\* strings.TrimSpace on the lines of the model
TrimSpace(line) ==
    CASE line = " 2 " -> "2"
      [] line = " "   -> ""
      [] OTHER        -> line

\* a prompt that takes a line other than 1, 2 or 3 for a failed read
PromptReviewActionStrict(input) ==
    IF input = "EOF" THEN [action |-> "", err |-> TRUE]
    ELSE CASE TrimSpace(input) = "1" -> [action |-> "manual", err |-> FALSE]
           [] TrimSpace(input) = "2" -> [action |-> "aifix", err |-> FALSE]
           [] TrimSpace(input) = "3" -> [action |-> "continue", err |-> FALSE]
           [] OTHER                  -> [action |-> "", err |-> TRUE]

\* ui.PromptReviewAction on the line read ("EOF": the read fails)
PromptReviewAction(input) ==
    IF input = "EOF" THEN [action |-> "", err |-> TRUE]
    ELSE CASE TrimSpace(input) = "1" -> [action |-> "manual", err |-> FALSE]
           [] TrimSpace(input) = "2" -> [action |-> "aifix", err |-> FALSE]
           [] TrimSpace(input) = "3" -> [action |-> "continue", err |-> FALSE]
           [] OTHER                  -> [action |-> "continue", err |-> FALSE]

\* the lines the operator can type (without the newline), and end of input
PromptInputs == {"1", "2", "3", "x", "", " ", " 2 ", "EOF"}

\* engine.handleReviewFindings; waitOk: the read of WaitForManualFix succeeds
handleReviewFindings(input, waitOk) ==
    LET p == PromptReviewAction(input)
    IN  IF p.err THEN [action |-> "continue", err |-> TRUE]
        ELSE IF p.action = "manual" /\ ~waitOk THEN [action |-> "continue", err |-> TRUE]
        ELSE [action |-> p.action, err |-> FALSE]

\* reviewLoopWithRecord's loop condition reaches maxReviewIterations + 1 calls
LoopContinuesOffByOne(i) == i <= maxReviewIterations

\* reviewLoopWithRecord: for iteration := 0; iteration < maxReviewIterations
LoopContinues(i) == i < maxReviewIterations

\* a reviewLoopWithRecord that returns the record of the round before
RecordOnReviewErrorStale(record) == record

\* reviewLoopWithRecord: return groups, nil when ReviewCode fails
RecordOnReviewError(record) == Nil

NoReview == [calls |-> 0, prompts |-> 0, failed |-> FALSE, promptsAtFail |-> 0]

NoAnswer == [kind |-> "none"]

\* ---- the history store before any Flush ----
\* the history file: not there, a JSON array of records, or cut short by a
\* write that failed
NoFile == [kind |-> "absent", data |-> <<>>]
JsonFile(data) == [kind |-> "json", data |-> data]
CorruptFile == [kind |-> "corrupt", data |-> <<>>]

NoCall == [op |-> "none", hashes |-> <<>>, err |-> FALSE]

IdleFlush == [pc |-> "idle", n |-> 0, gi |-> 0, commitHashes |-> <<>>,
              autoPush |-> FALSE, review |-> Nil]

\* born[h]: the Flush that made commit h; failed: the Flushes whose push
\* failed; pushed: the hashes a successful push was followed by MarkPushed
\* for; clean: every write of the file so far succeeded; attempts: for each
\* group the loop of the current Flush has taken up, whether it was
\* committed; flushes: Flushes begun
NoLedger == [born |-> <<>>, failed |-> {}, pushed |-> {}, clean |-> TRUE,
             attempts |-> <<>>, flushes |-> 0]

\* a nil slice
NilSlice == [arr |-> 0, len |-> 0, cap |-> 0]

IdleRacer == [pc |-> "idle", hash |-> 0, h |-> NilSlice, rec |-> <<>>,
              n |-> 0, i |-> 0, now |-> 0, snap |-> <<>>, after |-> ""]

\* ---- the watcher before any event ----
\* the zero value of FileChange; id is the event the FileChange was made for
ZeroChange == [Path |-> "", id |-> 0]

\* the event loop waiting in its select
IdleLoop == [pc |-> "idle", cur |-> ZeroChange, h |-> <<>>, n |-> 0,
             snapshot |-> <<>>]

\* accepted: events that got past the filters; dropped: the names of the
\* events shouldIgnore has dropped; emitted: the ChangeSets sent,
\* with the timer that sent each; burst: the events accepted since the last
\* timer fired; raced: a callback has run while the loop handled an event;
\* closed: the bursts a firing timer has ended
NoWatchLedger == [accepted |-> 0, dropped |-> {}, emitted |-> <<>>,
                  burst |-> <<>>, raced |-> FALSE, closed |-> <<>>]

\* Start: var pending []FileChange; var timer *time.Timer
WatchOff ==
    /\ watcher = [ignorePatterns |-> <<>>, watched |-> {}, eventsClosed |-> FALSE]
    /\ wloop = IdleLoop
    /\ wpending = <<>>
    /\ wtimers = <<>>
    /\ wevents = <<>>
    /\ wledger = NoWatchLedger

\* ---- the dashboard before any request ----
NoResponse == [kind |-> "none", body |-> <<>>]

DashOff == response = NoResponse

\* no push command has been started
NoPush == [pc |-> "off", file |-> "", world |-> {}, pid |-> 0, exit |-> -1,
           stderr |-> "", stdout |-> "", signalled |-> {}]

CmdOff == pushc = NoPush

\* ---- the review gate before processChanges reaches it ----
IdleGate == [pc |-> "off", iteration |-> 0, findings |-> <<>>,
             hasBlockers |-> FALSE, action |-> "", fi |-> 0]

\* no GenerateFix call yet
NoFix == [file |-> "", before |-> <<>>, answer |-> [kind |-> "none"],
          context |-> {}, result |-> [fixed |-> <<>>, err |-> FALSE],
          wrote |-> FALSE]

\* a round of the loop: the findings of its ReviewCode call, the line the
\* operator typed, the action taken and the findings whose patch was written
NoRound == [n |-> 0, findings |-> <<>>, input |-> "(no prompt)", action |-> "",
            written |-> {}]

\* round: the round the loop is in; prev: the round before it; prompts: the
\* prompts shown; patches: the patches the LLM has answered with; fix: the
\* GenerateFix call of the last step; saved: the CommitRecords handed to
\* store.Save
NoGateLedger == [round |-> NoRound, prev |-> NoRound, prompts |-> 0,
                 patches |-> 0, fix |-> NoFix, saved |-> <<>>]

GateOff ==
    /\ gate = IdleGate
    /\ ggroups = <<>>
    /\ grecord = <<>>
    /\ worktree = [content |-> <<>>, head |-> <<>>]
    /\ gledger = NoGateLedger

\* store.New when there is no history file yet
StoreOff ==
    /\ records = <<>>
    /\ disk = NoFile
    /\ clock = 0
    /\ hflush = IdleFlush
    /\ lastCall = NoCall
    /\ ledger = NoLedger
    /\ heap = <<>>
    /\ slice = NilSlice
    /\ racer = [t \in Flushers |-> IdleRacer]

PipeOff ==
    /\ ppc = "off"
    /\ trigger = "none"
    /\ cfg = [CodeReview |-> TRUE, AutoPush |-> TRUE]
    /\ changeset = <<>>
    /\ pregroups = <<>>
    /\ refined = <<>>
    /\ llm = NoAnswer
    /\ iteration = 0
    /\ review = NoReview
    /\ reviewRecord = Nil
    /\ index = {}
    /\ gi = 0
    /\ commits = <<>>
    /\ commitHashes = <<>>

\* Flush has drained a non-empty buffer and calls processChanges.  The
\* daemon (main.go) has set Interactive; an engine as New returns it has not.
PipeInit ==
    /\ EngineInit
    /\ \/ Interactive = TRUE /\ trigger \in {"stdin", "signal", "timer"}
       \/ Interactive = FALSE /\ trigger = "timer"
    /\ cfg \in [CodeReview : BOOLEAN, AutoPush : BOOLEAN]
    /\ changeset \in {TagFiles(ps, 0) : ps \in SeqsUpTo(Paths, MaxFiles)}
    /\ ppc = "refine"
    /\ pregroups = <<>>
    /\ refined = <<>>
    /\ llm = NoAnswer
    /\ iteration = 0
    /\ review = NoReview
    /\ reviewRecord = Nil
    /\ index \in SUBSET Paths
    /\ Cardinality(index) <= 1
    /\ gi = 0
    /\ commits = <<>>
    /\ commitHashes = <<>>
    /\ StoreOff
    /\ WatchOff
    /\ GateOff
    /\ DashOff
    /\ CmdOff

\* steps 1-3: PreGroup, the diffs, RefineAndCommit and its fallback
Refine ==
    /\ ppc = "refine"
    /\ \E dirOrder \in MapOrders(DirsOf(changeset)) :
         LET groups == PreGroup(changeset, dirOrder)
         IN  \E answer \in RefineAnswers(groups) :
               LET r == RefineAndCommit(groups, answer)
               IN  /\ pregroups' = groups
                   /\ refined' = IF r.err THEN RefineFallback(groups) ELSE r.groups
                   /\ llm' = answer
    /\ ppc' = IF cfg.CodeReview THEN "review" ELSE "reset"
    /\ UNCHANGED <<watchVars, gateVars, dashVars, cmdVars, engineVars, storeVars, raceVars, Interactive, trigger, cfg, changeset, iteration,
                   review, reviewRecord, index, gi, commits, commitHashes>>

\* step 3.5, interactive: one round of reviewLoopWithRecord up to its prompt
ReviewRound ==
    /\ ppc = "review"
    /\ Interactive
    /\ IF ~LoopContinues(iteration)
       THEN \* max review iterations reached
            /\ ppc' = "reset"
            /\ UNCHANGED <<review, reviewRecord>>
       ELSE \E answer \in ReviewAnswers(refined) :
              LET result == ReviewCode(answer)
              IN  IF result.err
                  THEN /\ reviewRecord' = RecordOnReviewError(reviewRecord)
                       /\ review' = [review EXCEPT !.calls = @ + 1, !.failed = TRUE,
                                                   !.promptsAtFail = review.prompts]
                       /\ ppc' = "reset"
                  ELSE /\ reviewRecord' = NewReviewRecord(result)
                       /\ review' = [review EXCEPT !.calls = @ + 1]
                       /\ ppc' = IF Len(result.Findings) = 0 \/ ~result.HasBlockers
                                 THEN "reset" ELSE "prompt"
    /\ UNCHANGED <<watchVars, gateVars, dashVars, cmdVars, engineVars, storeVars, raceVars, Interactive, trigger, cfg, changeset, pregroups, refined, llm,
                   iteration, index, gi, commits, commitHashes>>

\* step 3.5, interactive: the prompt, the operator's action, the re-fetch
\* of the diffs and the loop increment.  What applyAIFixes and the operator
\* write to the working copy changes file contents only, which are not
\* part of this state.
Gate ==
    /\ ppc = "prompt"
    /\ \E input \in PromptInputs, waitOk \in BOOLEAN :
         LET h == handleReviewFindings(input, waitOk)
             rec == reviewRecord[1]
         IN  /\ (input # "1" => waitOk)
             /\ IF h.err
                THEN /\ reviewRecord' = reviewRecord
                     /\ ppc' = "reset"
                     /\ iteration' = iteration
                ELSE IF h.action = "continue"
                THEN /\ reviewRecord' = <<[rec EXCEPT !.Action = h.action]>>
                     /\ ppc' = "reset"
                     /\ iteration' = iteration
                ELSE /\ reviewRecord' =
                          <<[rec EXCEPT !.Action = h.action,
                                        !.FixesApplied = @ \o FixesFor(h.action, rec.Findings)]>>
                     /\ ppc' = "review"
                     /\ iteration' = iteration + 1
    /\ review' = [review EXCEPT !.prompts = @ + 1]
    /\ UNCHANGED <<watchVars, gateVars, dashVars, cmdVars, engineVars, storeVars, raceVars, Interactive, trigger, cfg, changeset, pregroups, refined, llm,
                   index, gi, commits, commitHashes>>

\* step 3.5, non-interactive: one ReviewCode call whose result is only logged
ReviewOnce ==
    /\ ppc = "review"
    /\ ~Interactive
    /\ \E answer \in ReviewAnswers(refined) :
         LET result == ReviewCode(answer)
         IN  IF result.err
             THEN /\ reviewRecord' = reviewRecord
                  /\ review' = [review EXCEPT !.calls = @ + 1, !.failed = TRUE,
                                              !.promptsAtFail = review.prompts]
             ELSE /\ reviewRecord' = NewReviewRecord(result)
                  /\ review' = [review EXCEPT !.calls = @ + 1]
    /\ ppc' = "reset"
    /\ UNCHANGED <<watchVars, gateVars, dashVars, cmdVars, engineVars, storeVars, raceVars, Interactive, trigger, cfg, changeset, pregroups, refined, llm,
                   iteration, index, gi, commits, commitHashes>>

\* a processChanges that logs the failed reset and goes on to the loop
ResetStagingIgnoresError ==
    /\ ppc = "reset"
    /\ \E ok \in BOOLEAN :
         /\ index' = IF ok THEN {} ELSE index
         /\ gi' = 1
         /\ ppc' = IF Len(refined) = 0 THEN "push" ELSE "stage"
    /\ UNCHANGED <<watchVars, gateVars, dashVars, cmdVars, engineVars, storeVars, raceVars, Interactive, trigger, cfg, changeset, pregroups, refined, llm,
                   iteration, review, reviewRecord, commits, commitHashes>>

\* step 4: git.ResetStaging; a failure ends processChanges
ResetStaging ==
    /\ ppc = "reset"
    /\ \E ok \in BOOLEAN :
         IF ok
         THEN /\ index' = {}
              /\ gi' = 1
              /\ ppc' = IF Len(refined) = 0 THEN "push" ELSE "stage"
         ELSE /\ ppc' = "done"
              /\ UNCHANGED <<index, gi>>
    /\ UNCHANGED <<watchVars, gateVars, dashVars, cmdVars, engineVars, storeVars, raceVars, Interactive, trigger, cfg, changeset, pregroups, refined, llm,
                   iteration, review, reviewRecord, commits, commitHashes>>

\* engine.parseDiffStats, the paths of its entries: one entry for every
\* element of files, then one for every file that has none yet
parseDiffStats(files) ==
    LET changes == [k \in 1..Len(files) |-> files[k]]
        seen == Range(changes)
    IN  changes \o SelectSeq(files, LAMBDA f : f \notin seen)

\* processChanges: commitHashes = append(commitHashes, hash)
KeepHash(hashes, hash) == Append(hashes, hash)

\* git.StageFiles: wt.Add file by file, stopping at the first failure;
\* staged is the number of files added before it
StageFiles(idx, files, staged) ==
    [index |-> idx \cup {files[k] : k \in 1..staged}, err |-> staged < Len(files)]

\* step 4, one round of the loop: stage the group, commit, record
StageAndCommit ==
    /\ ppc = "stage"
    /\ gi <= Len(refined)
    /\ LET g == refined[gi]
       IN  \E staged \in 0..Len(g.Files), commitOk \in BOOLEAN :
             LET s == StageFiles(index, g.Files, staged)
             IN  /\ (s.err => commitOk)
                 /\ IF s.err \/ ~commitOk
                    THEN /\ index' = s.index
                         /\ UNCHANGED <<commits, commitHashes>>
                    ELSE /\ index' = {}
                         /\ commits' = Append(commits,
                                [Hash |-> Len(commits) + 1,
                                 Content |-> s.index,
                                 Message |-> g.CommitMessage,
                                 Files |-> parseDiffStats(g.Files),
                                 Review |-> reviewRecord,
                                 Pushed |-> FALSE])
                         /\ commitHashes' = KeepHash(commitHashes, Len(commits) + 1)
    /\ gi' = gi + 1
    /\ ppc' = IF gi + 1 > Len(refined) THEN "push" ELSE "stage"
    /\ UNCHANGED <<watchVars, gateVars, dashVars, cmdVars, engineVars, storeVars, raceVars, Interactive, trigger, cfg, changeset, pregroups, refined, llm,
                   iteration, review, reviewRecord>>

\* step 5: one push for all commits, then store.MarkPushed
Push ==
    /\ ppc = "push"
    /\ IF Len(commitHashes) > 0 /\ cfg.AutoPush
       THEN \E ok \in BOOLEAN :
              commits' = IF ok THEN [k \in 1..Len(commits) |->
                                        IF commits[k].Hash \in Range(commitHashes)
                                        THEN [commits[k] EXCEPT !.Pushed = TRUE]
                                        ELSE commits[k]]
                         ELSE commits
       ELSE UNCHANGED commits
    /\ ppc' = "done"
    /\ UNCHANGED <<watchVars, gateVars, dashVars, cmdVars, engineVars, storeVars, raceVars, Interactive, trigger, cfg, changeset, pregroups, refined, llm,
                   iteration, review, reviewRecord, index, gi, commitHashes>>

PipeNext ==
    \/ Refine
    \/ ReviewRound
    \/ Gate
    \/ ReviewOnce
    \/ ResetStaging
    \/ StageAndCommit
    \/ Push

PipeSpec == PipeInit /\ [][PipeNext]_vars

----------------------------------------------------------------------------
(***************************************************************************)
(* Claims about one call of processChanges (PipeSpec).                     *)
(***************************************************************************)
\* the gate is over: processChanges is at or past step 4
PastGate == ppc \in {"reset", "stage", "push", "done"}

\* the paths Flush drained and handed over
DrainedPaths == {changeset[k].Path : k \in 1..Len(changeset)}

\* the paths in the commits of this call
CommittedPaths == UNION {commits[k].Content : k \in 1..Len(commits)}

\* the number of groups of gs that list path p
GroupsWith(gs, p) == Cardinality({k \in 1..Len(gs) : p \in Range(gs[k].Files)})

\* C11: the groups PreGroup returns cover exactly the paths of the ChangeSet
\* and no path is listed by two different groups (a path that came twice is
\* listed twice by its one group).
C11_PreGroupPartitions ==
    llm # NoAnswer =>
        /\ UNION {Range(pregroups[k].Files) : k \in 1..Len(pregroups)} = DrainedPaths
        /\ \A p \in DrainedPaths : GroupsWith(pregroups, p) = 1

\* PreGroup has returned two groups for a ChangeSet of two directories
C11_Witness ==
    /\ llm # NoAnswer
    /\ Len(pregroups) = 2
    /\ Range(pregroups[1].Files) # Range(pregroups[2].Files)
    /\ Len(pregroups[1].Files) + Len(pregroups[2].Files) = Len(changeset)

\* C30: a group PreGroup returns has the reason name affinity: <dir> only
\* when the ChangeSet has, in that directory, a test file (stem s_test) and
\* another file with stem s; a test file that is the only changed file of
\* its directory is returned as a singleton with reason singletons
\* <basename>.
C30_AffinityNeedsTestAndSource ==
    llm # NoAnswer =>
        /\ \A k \in 1..Len(pregroups) :
              pregroups[k].Reason[1] = "name affinity" =>
                  \E p, q \in DrainedPaths :
                      /\ p # q
                      /\ Dir(p) = pregroups[k].Reason[2]
                      /\ Dir(q) = pregroups[k].Reason[2]
                      /\ PathTable[p].test
                      /\ ~PathTable[q].test
                      /\ PathTable[q].stem = PathTable[p].stem
        /\ \A p \in DrainedPaths :
              (PathTable[p].test /\ \A q \in DrainedPaths : Dir(q) = Dir(p) => q = p) =>
                  \E k \in 1..Len(pregroups) :
                      pregroups[k] = FileGroup(<<p>>, <<"singletons", Base(p)>>, "")

\* C31: after a refine call that failed in transport, the groups handed
\* to the gate and the stager are the heuristic groups, one for one, with
\* their files and reasons, and with the sentinel message where PreGroup
\* left the message empty; every commit of the Flush is the commit of one
\* of them under that message, and when every group was committed the
\* commits are theirs in order.
C31_TransportFailureCommitsHeuristicGroups ==
    llm.kind = "transport" =>
        LET msg(k) == IF pregroups[k].CommitMessage = "" THEN Sentinel
                      ELSE pregroups[k].CommitMessage
        IN  /\ Len(refined) = Len(pregroups)
            /\ \A k \in 1..Len(pregroups) :
                  /\ refined[k].Files = pregroups[k].Files
                  /\ refined[k].Reason = pregroups[k].Reason
                  /\ refined[k].CommitMessage = msg(k)
            /\ \A c \in 1..Len(commits) :
                  \E k \in 1..Len(pregroups) :
                      /\ commits[c].Files = pregroups[k].Files
                      /\ commits[c].Message = msg(k)
            /\ Len(commits) = Len(pregroups) =>
                  \A k \in 1..Len(pregroups) :
                      /\ commits[k].Files = pregroups[k].Files
                      /\ commits[k].Message = msg(k)

\* the refine call failed in transport and both heuristic groups were
\* committed under the sentinel message
C31_Witness ==
    /\ llm.kind = "transport"
    /\ ppc = "done"
    /\ Len(pregroups) = 2
    /\ Len(commits) = 2
    /\ \A k \in 1..2 : /\ pregroups[k].CommitMessage = ""
                       /\ commits[k].Message = Sentinel

\* the changes flusher t has drained
DrainedIds(t) == {fl[t].files[k].id : k \in 1..Len(fl[t].files)}

\* C32: a Flush hands its changes to processChanges in the order they were
\* appended, and no change is handed to processChanges while changes
\* appended before it have been drained and are still to be handed; the
\* commits of a call are commits of its refined groups in the refiner's
\* order; commitHashes holds the hashes of the commits in commit order.
C32_ArrivalOrderCommitOrderHashOrder ==
    /\ \A t \in Flushers :
          \A k \in 1..(Len(fl[t].files) - 1) :
              fl[t].files[k].id < fl[t].files[k + 1].id
    /\ \A t, u \in Flushers :
          (t # u /\ fl[t].pc \in {"running", "done"} /\ fl[u].pc = "cancel") =>
              \A i \in DrainedIds(t), j \in DrainedIds(u) : i < j
    /\ \E f \in [1..Len(commits) -> 1..Len(refined)] :
          /\ \A k \in 1..Len(commits) :
                /\ commits[k].Files = refined[f[k]].Files
                /\ commits[k].Message = refined[f[k]].CommitMessage
          /\ \A k \in 1..(Len(commits) - 1) : f[k] < f[k + 1]
    /\ commitHashes = [k \in 1..Len(commits) |-> commits[k].Hash]

\* no element of the sequence s occurs in it twice
NoRepeat(s) == \A i, j \in 1..Len(s) : s[i] = s[j] => i = j

\* C36: a path that came several times in the ChangeSet is listed once by
\* its heuristic group and once by the file entries of a commit of that
\* group, and a ChangeSet with several events for one file gives the groups
\* a ChangeSet with one event for that file gives.
C36_DuplicateEventsAreIdempotent ==
    llm # NoAnswer =>
        /\ \A k \in 1..Len(pregroups) : NoRepeat(pregroups[k].Files)
        /\ llm.kind = "transport" =>
              \A k \in 1..Len(commits) : NoRepeat(commits[k].Files)
        /\ Cardinality(DrainedPaths) = 1 =>
              pregroups = PreGroup(<<changeset[1]>>, <<Dir(changeset[1].Path)>>)

\* C39: when the index reset at the start of staging fails, the Flush ends
\* without staging, committing, pushing or recording any group, and the
\* changes it drained are not returned to the pending buffer.  A step of
\* step 4's reset either empties the index and goes on, or ends the call
\* with the index, the commits, the hashes and the buffer as they were;
\* nothing happens once the call has ended.
C39_FailedResetEndsTheFlushEmptyHanded ==
    [][ /\ ppc = "reset" =>
              \/ /\ ppc' = "done"
                 /\ index' = index
                 /\ commits' = <<>>
                 /\ commitHashes' = <<>>
                 /\ pending' = pending
              \/ /\ ppc' \in {"stage", "push"}
                 /\ index' = {}
        /\ ppc # "done" ]_vars

\* a call that ended at the failed reset, with groups to commit, a file
\* in the index and AutoPush on
C39_Witness ==
    /\ ppc = "done"
    /\ gi = 0
    /\ Len(refined) > 0
    /\ index # {}
    /\ cfg.AutoPush
    /\ commits = <<>>
    /\ pending = <<>>

\* the review records of this call: the one processChanges holds and the
\* ones stored with its commits
ReviewRecords ==
    {reviewRecord[k] : k \in 1..Len(reviewRecord)}
    \cup {commits[k].Review[1] : k \in {j \in 1..Len(commits) : commits[j].Review # Nil}}

RefinedPartitions ==
    /\ \A p \in DrainedPaths : GroupsWith(refined, p) = 1
    /\ \A k \in 1..Len(refined) : Range(refined[k].Files) \subseteq DrainedPaths

\* C13: every commit of the Flush contains exactly the files of its own
\* group, also after staging or committing an earlier group has failed
\* (stated for groups that partition the drained paths).
C13_CommitHoldsOwnGroup ==
    RefinedPartitions =>
        \A k \in 1..Len(commits) : commits[k].Content = Range(commits[k].Files)

\* C3: a Flush started by the safety timer or by SIGUSR1 runs with
\* interactive mode off: it never prompts the operator and calls ReviewCode
\* once, also in the daemon.
C3_TimerAndSignalNeverPrompt ==
    trigger \in {"timer", "signal"} =>
        /\ ppc # "prompt"
        /\ review.prompts = 0
        /\ review.calls <= 1

\* C6: when the index reset succeeded and every group was committed, the
\* union of the committed paths equals the set of drained paths.
C6_CommittedEqualsDrained ==
    (ppc = "done" /\ gi > 0 /\ Len(commits) = Len(refined)) =>
        CommittedPaths = DrainedPaths

\* C7 as stated: at most maxReviewIterations ReviewCode calls in interactive
\* mode, exactly one in non-interactive mode.
C7_ReviewCallBound ==
    PastGate =>
        IF Interactive THEN review.calls <= maxReviewIterations
        ELSE review.calls = 1

\* C7 amended: with code review enabled, between one and
\* maxReviewIterations ReviewCode calls in interactive mode and exactly one
\* in non-interactive mode; with code review disabled, none in either mode.
C7_ReviewCallBoundWhenEnabled ==
    /\ review.calls <= maxReviewIterations
    /\ PastGate =>
         IF ~cfg.CodeReview THEN review.calls = 0
         ELSE IF Interactive THEN review.calls \in 1..maxReviewIterations
         ELSE review.calls = 1

\* the interactive loop has used all its rounds and goes on to staging
C7_Witness ==
    /\ Interactive
    /\ ppc = "stage"
    /\ review.calls = maxReviewIterations
    /\ review.prompts = maxReviewIterations

\* C8: once a ReviewCode call has failed, processChanges is at staging or
\* beyond, the operator is not prompted again, and no review record is kept
\* for, or attached to, the commits.
C8_ReviewFailsOpen ==
    review.failed =>
        /\ PastGate
        /\ review.prompts = review.promptsAtFail
        /\ reviewRecord = Nil
        /\ \A k \in 1..Len(commits) : commits[k].Review = Nil

\* ReviewCode failed in a later round, after the operator had acted on the
\* blockers of an earlier one, and the Flush has committed
C8_Witness ==
    /\ review.failed
    /\ review.calls > 1
    /\ review.prompts > 0
    /\ Len(commits) > 0

\* C9: whatever the LLM answers to the refine call, the groups handed to the
\* stager list each changed file in exactly one group and every group has a
\* non-empty commit message.
C9_RefineOutputContract ==
    llm # NoAnswer =>
        /\ \A p \in DrainedPaths : GroupsWith(refined, p) = 1
        /\ \A k \in 1..Len(refined) : refined[k].CommitMessage # ""

\* C10: when the refine answer is not JSON for the expected array, the
\* groups are the heuristic groups (files and reasons) and no commit is made
\* with an empty message, also when the single-message calls fail.
C10_MalformedKeepsGroupsAndMessages ==
    llm.kind = "malformed" =>
        /\ \E dirOrder \in MapOrders(DirsOf(changeset)) :
             [k \in 1..Len(refined) |-> [refined[k] EXCEPT !.CommitMessage = ""]]
                = PreGroup(changeset, dirOrder)
        /\ \A k \in 1..Len(commits) : commits[k].Message # ""

----------------------------------------------------------------------------
(***************************************************************************)
(* The history store (internal/store) and the part of processChanges that  *)
(* writes to it, over successive Flushes (HistSpec).                       *)
(***************************************************************************)
\* Flushes in one run of the daemon
MaxFlushes == 2
\* groups handed to the stage+commit loop of one Flush
MaxGroups == 2
\* commits made in one run of the daemon
MaxCommits == 3

\* config.Default: the remote and branch of the push
Remote == "origin"
Branch == "main"

\* store.ReviewRecord values a Flush attaches to its commits
ReviewValues ==
    { Nil,
      <<[Findings |-> <<Finding("a/x.go", SeverityError)>>, HasBlockers |-> TRUE,
         Action |-> "aifix", FixesApplied |-> <<FixRecord("a/x.go", "ai")>>]>> }

\* store.CommitRecord as processChanges builds it.  Message, Files,
\* GroupReason and AIGenerated are left out: plain fields, written once,
\* always present in the file.  A time is the clock reading it was taken at;
\* the zero time is 0.
CommitRecord(hash, rev) ==
    [Hash |-> hash, Review |-> rev, Pushed |-> FALSE, PushedAt |-> Nil,
     Remote |-> "", Branch |-> "", CreatedAt |-> 0]

\* the zero values Unmarshal starts a new slice element from
ZeroReview == [Findings |-> <<>>, HasBlockers |-> FALSE, Action |-> "", FixesApplied |-> <<>>]
ZeroRecord == CommitRecord("", Nil)

\* json.Marshal of a ReviewRecord: fixes_applied has omitempty
MarshalReview(r) ==
    [findings |-> r.Findings, has_blockers |-> r.HasBlockers, action |-> r.Action]
    @@ (IF r.FixesApplied # <<>> THEN [fixes_applied |-> r.FixesApplied] ELSE <<>>)

\* json.Marshal of a CommitRecord: review, pushed_at, remote and branch
\* have omitempty
MarshalRecord(r) ==
    [hash |-> r.Hash, pushed |-> r.Pushed, created_at |-> r.CreatedAt]
    @@ (IF r.Review # Nil THEN [review |-> MarshalReview(r.Review[1])] ELSE <<>>)
    @@ (IF r.PushedAt # Nil THEN [pushed_at |-> r.PushedAt[1]] ELSE <<>>)
    @@ (IF r.Remote # "" THEN [remote |-> r.Remote] ELSE <<>>)
    @@ (IF r.Branch # "" THEN [branch |-> r.Branch] ELSE <<>>)

\* json.MarshalIndent(s.records)
Marshal(recs) == [i \in 1..Len(recs) |-> MarshalRecord(recs[i])]

\* json.Unmarshal into a struct: a key of the object sets its field, a
\* field whose key is absent keeps the value it had
UnmarshalReview(j, old) ==
    [Findings |-> j.findings, HasBlockers |-> j.has_blockers, Action |-> j.action,
     FixesApplied |-> IF "fixes_applied" \in DOMAIN j THEN j.fixes_applied
                      ELSE old.FixesApplied]

UnmarshalRecord(j, old) ==
    [Hash |-> j.hash, Pushed |-> j.pushed, CreatedAt |-> j.created_at,
     Review |-> IF "review" \in DOMAIN j
                THEN <<UnmarshalReview(j.review,
                                       IF old.Review # Nil THEN old.Review[1]
                                       ELSE ZeroReview)>>
                ELSE old.Review,
     PushedAt |-> IF "pushed_at" \in DOMAIN j THEN <<j.pushed_at>> ELSE old.PushedAt,
     Remote |-> IF "remote" \in DOMAIN j THEN j.remote ELSE old.Remote,
     Branch |-> IF "branch" \in DOMAIN j THEN j.branch ELSE old.Branch]

\* an Unmarshal that appends to the slice it is given
UnmarshalAppending(data, old) ==
    old \o [i \in 1..Len(data) |-> UnmarshalRecord(data[i], ZeroRecord)]

\* json.Unmarshal(data, &s.records): element i is decoded into the element
\* the slice already has at i, or into a zero one; the length becomes that
\* of the array
Unmarshal(data, old) ==
    [i \in 1..Len(data) |->
        UnmarshalRecord(data[i], IF i <= Len(old) THEN old[i] ELSE ZeroRecord)]

\* what os.WriteFile can do: write the file, fail before touching it, or
\* fail after truncating it
WriteOutcomes == {"ok", "fail", "partial"}

\* Store.flush
flush(recs, file, out) ==
    CASE out = "ok"      -> [disk |-> JsonFile(Marshal(recs)), err |-> FALSE]
      [] out = "partial" -> [disk |-> CorruptFile, err |-> TRUE]
      [] OTHER           -> [disk |-> file, err |-> TRUE]

\* Store.load: os.ReadFile, then json.Unmarshal (which leaves the slice
\* alone when the text is not valid JSON)
load(recs, file) ==
    IF file.kind # "json"
    THEN [records |-> recs, err |-> TRUE]
    ELSE [records |-> Unmarshal(file.data, recs), err |-> FALSE]

\* a Save that puts the new record first
SavePrepending(recs, file, record, now, out) ==
    LET rs == <<[record EXCEPT !.CreatedAt = now]>> \o recs
        f == flush(rs, file, out)
    IN  [records |-> rs, disk |-> f.disk, err |-> f.err]

\* Store.Save
Save(recs, file, record, now, out) ==
    LET rs == Append(recs, [record EXCEPT !.CreatedAt = now])
        f == flush(rs, file, out)
    IN  [records |-> rs, disk |-> f.disk, err |-> f.err]

\* a MarkPushed that marks every record of the history
MarkPushedAll(recs, file, hashes, remote, branch, now, out) ==
    LET rs == [i \in 1..Len(recs) |->
                  [recs[i] EXCEPT !.Pushed = TRUE, !.PushedAt = <<now>>,
                                  !.Remote = remote, !.Branch = branch]]
        f == flush(rs, file, out)
    IN  [records |-> rs, disk |-> f.disk, err |-> f.err]

\* Store.MarkPushed
MarkPushed(recs, file, hashes, remote, branch, now, out) ==
    LET rs == [i \in 1..Len(recs) |->
                  IF recs[i].Hash \in Range(hashes)
                  THEN [recs[i] EXCEPT !.Pushed = TRUE, !.PushedAt = <<now>>,
                                       !.Remote = remote, !.Branch = branch]
                  ELSE recs[i]]
        f == flush(rs, file, out)
    IN  [records |-> rs, disk |-> f.disk, err |-> f.err]

HistInit ==
    /\ EngineInit
    /\ Interactive = TRUE
    /\ PipeOff
    /\ StoreOff
    /\ WatchOff
    /\ GateOff
    /\ DashOff
    /\ CmdOff

\* the stage+commit loop goes on with the next group after a failure
\* ... or gives up on the groups that are left
AfterFailureBreak(i, n) == n + 1

\* processChanges: `continue` after a failed StageFiles or Commit
AfterFailure(i, n) == i + 1

\* processChanges reaches step 4 with n groups and its index reset
BeginCommits ==
    /\ hflush.pc = "idle"
    /\ ledger.flushes < MaxFlushes
    /\ \E n \in 1..MaxGroups, ap \in BOOLEAN, rev \in ReviewValues :
         hflush' = [pc |-> "loop", n |-> n, gi |-> 1, commitHashes |-> <<>>,
                    autoPush |-> ap, review |-> rev]
    /\ ledger' = [ledger EXCEPT !.flushes = @ + 1, !.attempts = <<>>]
    /\ lastCall' = NoCall
    /\ UNCHANGED <<watchVars, gateVars, dashVars, cmdVars, engineVars, raceVars, Interactive, pipeVars, records, disk, clock>>

\* one round of the loop: StageFiles and Commit, then store.Save
CommitGroup ==
    /\ hflush.pc = "loop"
    /\ hflush.gi <= hflush.n
    /\ \E committed \in BOOLEAN, out \in WriteOutcomes :
         /\ committed => Len(ledger.born) < MaxCommits
         /\ IF ~committed
            THEN /\ out = "ok"
                 /\ hflush' = [hflush EXCEPT !.gi = AfterFailure(hflush.gi, hflush.n)]
                 /\ ledger' = [ledger EXCEPT !.attempts = Append(@, FALSE)]
                 /\ lastCall' = NoCall
                 /\ UNCHANGED <<records, disk, clock>>
            ELSE LET hash == Len(ledger.born) + 1
                     s == Save(records, disk, CommitRecord(hash, hflush.review),
                               clock + 1, out)
                 IN  /\ records' = s.records
                     /\ disk' = s.disk
                     /\ clock' = clock + 1
                     /\ hflush' = [hflush EXCEPT !.gi = @ + 1,
                                                 !.commitHashes = Append(@, hash)]
                     /\ ledger' = [ledger EXCEPT !.born = Append(@, ledger.flushes),
                                                 !.attempts = Append(@, TRUE),
                                                 !.clean = @ /\ ~s.err]
                     /\ lastCall' = [op |-> "Save", hashes |-> <<hash>>, err |-> s.err]
    /\ UNCHANGED <<watchVars, gateVars, dashVars, cmdVars, engineVars, raceVars, Interactive, pipeVars>>

\* the loop is over
LoopEnd ==
    /\ hflush.pc = "loop"
    /\ hflush.gi > hflush.n
    /\ hflush' = [hflush EXCEPT !.pc = "push"]
    /\ lastCall' = NoCall
    /\ UNCHANGED <<watchVars, gateVars, dashVars, cmdVars, engineVars, raceVars, Interactive, pipeVars, records, disk, clock, ledger>>

\* step 5: git.Push, then store.MarkPushed(commitHashes, Remote, Branch)
PushAndMark ==
    /\ hflush.pc = "push"
    /\ IF Len(hflush.commitHashes) > 0 /\ hflush.autoPush
       THEN \E pushOk \in BOOLEAN, out \in WriteOutcomes :
              IF ~pushOk
              THEN /\ out = "ok"
                   /\ ledger' = [ledger EXCEPT !.failed = @ \cup {ledger.flushes}]
                   /\ lastCall' = NoCall
                   /\ UNCHANGED <<records, disk, clock>>
              ELSE LET s == MarkPushed(records, disk, hflush.commitHashes,
                                       Remote, Branch, clock + 1, out)
                   IN  /\ records' = s.records
                       /\ disk' = s.disk
                       /\ clock' = clock + 1
                       /\ ledger' = [ledger EXCEPT
                                        !.pushed = @ \cup Range(hflush.commitHashes),
                                        !.clean = @ /\ ~s.err]
                       /\ lastCall' = [op |-> "MarkPushed",
                                       hashes |-> hflush.commitHashes, err |-> s.err]
       ELSE /\ lastCall' = NoCall
            /\ UNCHANGED <<records, disk, clock, ledger>>
    /\ hflush' = IdleFlush
    /\ UNCHANGED <<watchVars, gateVars, dashVars, cmdVars, engineVars, raceVars, Interactive, pipeVars>>

\* Store.Reload, between two Flushes
Reload ==
    /\ hflush.pc = "idle"
    /\ lastCall.op # "Reload"
    /\ LET l == load(records, disk)
       IN  /\ records' = l.records
           /\ lastCall' = [op |-> "Reload", hashes |-> <<>>, err |-> l.err]
    /\ UNCHANGED <<watchVars, gateVars, dashVars, cmdVars, engineVars, raceVars, Interactive, pipeVars, disk, clock, hflush, ledger>>

\* the daemon is started again: store.New loads the file into a new Store
\* (and fails, so that the daemon does not start, when the file is not JSON)
StoreNew ==
    /\ hflush.pc = "idle"
    /\ lastCall.op # "New"
    /\ disk.kind # "corrupt"
    /\ LET l == load(<<>>, disk)
       IN  /\ records' = l.records
           /\ lastCall' = [op |-> "New", hashes |-> <<>>, err |-> FALSE]
    /\ UNCHANGED <<watchVars, gateVars, dashVars, cmdVars, engineVars, raceVars, Interactive, pipeVars, disk, clock, hflush, ledger>>

HistNext ==
    \/ BeginCommits
    \/ CommitGroup
    \/ LoopEnd
    \/ PushAndMark
    \/ Reload
    \/ StoreNew

HistSpec == HistInit /\ [][HistNext]_vars

----------------------------------------------------------------------------
(***************************************************************************)
(* Two Flushes that overlap (the main task's and the timer callback's),    *)
(* each with one commit and a successful push, on the one Store of the     *)
(* engine.  Store has no lock: Save and MarkPushed are followed access by  *)
(* access to Store.records (RaceSpec).  Every write of the file succeeds.  *)
(***************************************************************************)
\* the hash of the commit flusher t makes
HashOf(t) == IF t = "main" THEN 1 ELSE 2

\* the records the slice header h shows
Shown(h) == IF h.arr = 0 THEN <<>> ELSE SubSeq(heap[h.arr], 1, h.len)

\* runtime: the capacity append gives a full slice
GrownCap(cap) == IF cap = 0 THEN 1 ELSE cap + cap

RaceInit ==
    /\ EngineInit
    /\ Interactive = TRUE
    /\ PipeOff
    /\ StoreOff
    /\ WatchOff
    /\ GateOff
    /\ DashOff
    /\ CmdOff

\* processChanges has committed its group and calls store.Save(record);
\* Save: record.CreatedAt = time.Now()
SaveCall(t) ==
    /\ racer[t].pc = "idle"
    /\ clock' = clock + 1
    /\ racer' = [racer EXCEPT ![t].pc = "append.read",
                              ![t].hash = HashOf(t),
                              ![t].rec = <<[CommitRecord(HashOf(t), Nil)
                                              EXCEPT !.CreatedAt = clock + 1]>>]
    /\ UNCHANGED <<watchVars, gateVars, dashVars, cmdVars, engineVars, Interactive, pipeVars, records, disk, hflush,
                   lastCall, ledger, heap, slice>>

\* append(s.records, record) reads the slice header
AppendRead(t) ==
    /\ racer[t].pc = "append.read"
    /\ racer' = [racer EXCEPT ![t].pc = "append.write", ![t].h = slice]
    /\ UNCHANGED <<watchVars, gateVars, dashVars, cmdVars, engineVars, Interactive, pipeVars, storeVars, heap, slice>>

\* append writes the record behind the last one, into the same array when
\* it has room and else into a new one, to which it copies the others
AppendWrite(t) ==
    /\ racer[t].pc = "append.write"
    /\ LET h == racer[t].h
           rec == racer[t].rec[1]
       IN  IF h.len < h.cap
           THEN /\ heap' = [heap EXCEPT ![h.arr][h.len + 1] = rec]
                /\ racer' = [racer EXCEPT ![t].pc = "append.store",
                                          ![t].h = [h EXCEPT !.len = @ + 1]]
           ELSE LET cap == GrownCap(h.cap)
                    array == [k \in 1..cap |->
                                 IF k <= h.len THEN heap[h.arr][k]
                                 ELSE IF k = h.len + 1 THEN rec
                                 ELSE ZeroRecord]
                IN  /\ heap' = Append(heap, array)
                    /\ racer' = [racer EXCEPT
                                    ![t].pc = "append.store",
                                    ![t].h = [arr |-> Len(heap) + 1,
                                              len |-> h.len + 1, cap |-> cap]]
    /\ UNCHANGED <<watchVars, gateVars, dashVars, cmdVars, engineVars, Interactive, pipeVars, storeVars, slice>>

\* s.records = (what append returned)
AppendStore(t) ==
    /\ racer[t].pc = "append.store"
    /\ slice' = racer[t].h
    /\ racer' = [racer EXCEPT ![t].pc = "flush.marshal", ![t].after = "push"]
    /\ UNCHANGED <<watchVars, gateVars, dashVars, cmdVars, engineVars, Interactive, pipeVars, storeVars, heap>>

\* flush: json.MarshalIndent(s.records)
FlushMarshal(t) ==
    /\ racer[t].pc = "flush.marshal"
    /\ racer' = [racer EXCEPT ![t].pc = "flush.write",
                              ![t].snap = Marshal(Shown(slice))]
    /\ UNCHANGED <<watchVars, gateVars, dashVars, cmdVars, engineVars, Interactive, pipeVars, storeVars, heap, slice>>

\* flush: os.WriteFile(s.path, data); Save or MarkPushed returns
FlushWrite(t) ==
    /\ racer[t].pc = "flush.write"
    /\ disk' = JsonFile(racer[t].snap)
    /\ racer' = [racer EXCEPT ![t].pc = racer[t].after]
    /\ UNCHANGED <<watchVars, gateVars, dashVars, cmdVars, engineVars, Interactive, pipeVars, records, clock, hflush,
                   lastCall, ledger, heap, slice>>

\* git.Push has succeeded and processChanges calls store.MarkPushed with its
\* one hash; MarkPushed: now := time.Now(); for i := range s.records
MarkPushedCall(t) ==
    /\ racer[t].pc = "push"
    /\ clock' = clock + 1
    /\ racer' = [racer EXCEPT ![t].pc = "mark.test", ![t].now = clock + 1,
                              ![t].n = slice.len, ![t].i = 1]
    /\ UNCHANGED <<watchVars, gateVars, dashVars, cmdVars, engineVars, Interactive, pipeVars, records, disk, hflush,
                   lastCall, ledger, heap, slice>>

\* MarkPushed: if hashSet[s.records[i].Hash]
MarkTest(t) ==
    /\ racer[t].pc = "mark.test"
    /\ racer' = IF racer[t].i > racer[t].n
                THEN [racer EXCEPT ![t].pc = "flush.marshal", ![t].after = "done"]
                ELSE IF heap[slice.arr][racer[t].i].Hash = racer[t].hash
                THEN [racer EXCEPT ![t].pc = "mark.Pushed"]
                ELSE [racer EXCEPT ![t].i = @ + 1]
    /\ UNCHANGED <<watchVars, gateVars, dashVars, cmdVars, engineVars, Interactive, pipeVars, storeVars, heap, slice>>

\* MarkPushed: s.records[i].Pushed = true, then .PushedAt = &now, then
\* .Remote = remote, then .Branch = branch; each statement reads s.records
MarkWrite(t) ==
    /\ racer[t].pc \in {"mark.Pushed", "mark.PushedAt", "mark.Remote", "mark.Branch"}
    /\ LET i == racer[t].i
           a == slice.arr
       IN  CASE racer[t].pc = "mark.Pushed" ->
                  /\ heap' = [heap EXCEPT ![a][i].Pushed = TRUE]
                  /\ racer' = [racer EXCEPT ![t].pc = "mark.PushedAt"]
             [] racer[t].pc = "mark.PushedAt" ->
                  /\ heap' = [heap EXCEPT ![a][i].PushedAt = <<racer[t].now>>]
                  /\ racer' = [racer EXCEPT ![t].pc = "mark.Remote"]
             [] racer[t].pc = "mark.Remote" ->
                  /\ heap' = [heap EXCEPT ![a][i].Remote = Remote]
                  /\ racer' = [racer EXCEPT ![t].pc = "mark.Branch"]
             [] OTHER ->
                  /\ heap' = [heap EXCEPT ![a][i].Branch = Branch]
                  /\ racer' = [racer EXCEPT ![t].pc = "mark.test", ![t].i = @ + 1]
    /\ UNCHANGED <<watchVars, gateVars, dashVars, cmdVars, engineVars, Interactive, pipeVars, storeVars, slice>>

RaceNext ==
    \E t \in Flushers :
        \/ SaveCall(t)
        \/ AppendRead(t)
        \/ AppendWrite(t)
        \/ AppendStore(t)
        \/ FlushMarshal(t)
        \/ FlushWrite(t)
        \/ MarkPushedCall(t)
        \/ MarkTest(t)
        \/ MarkWrite(t)

RaceSpec == RaceInit /\ [][RaceNext]_vars

----------------------------------------------------------------------------
(***************************************************************************)
(* Claims about the history store (HistSpec).                              *)
(***************************************************************************)
\* the hashes of the commits Flush number f made
HashesOf(f) == {h \in 1..Len(ledger.born) : ledger.born[h] = f}

\* the positions of recs whose record has a hash in H
Holding(recs, H) == {i \in 1..Len(recs) : recs[i].Hash \in H}

PushFieldsSet(r) ==
    r.Pushed => r.PushedAt # Nil /\ r.Remote = Remote /\ r.Branch = Branch

PushKeysSet(j) ==
    j.pushed => /\ "pushed_at" \in DOMAIN j
                /\ "remote" \in DOMAIN j /\ j.remote = Remote
                /\ "branch" \in DOMAIN j /\ j.branch = Branch

PushedAreComplete ==
    /\ \A i \in 1..Len(records) : PushFieldsSet(records[i])
    /\ \A i \in 1..Len(disk.data) : PushKeysSet(disk.data[i])

\* with Flushes one after the other (HistSpec): every pushed record is
\* complete, and MarkPushed marks every record it was given the hash of, in
\* memory, and in the file when the write succeeded
SerialFlushesMarkCompletely ==
    [][ /\ PushedAreComplete'
        /\ lastCall'.op = "MarkPushed" =>
              \A h \in Range(lastCall'.hashes) :
                  /\ \E i \in 1..Len(records') :
                        records'[i].Hash = h /\ records'[i].Pushed
                  /\ ~lastCall'.err =>
                        \E i \in 1..Len(disk'.data) :
                           disk'.data[i].hash = h /\ disk'.data[i].pushed ]_vars

\* C15: once the Flushes have returned, every record of the history, in
\* memory and in the file, that has pushed = true has a push time and the
\* configured remote and branch, and every record whose hash a successful
\* push covered has pushed = true (RaceSpec: the Flushes may overlap).
C15_PushedRecordsAreComplete ==
    (\A t \in Flushers : racer[t].pc = "done") =>
        /\ \A i \in 1..slice.len : PushFieldsSet(Shown(slice)[i])
        /\ \A i \in 1..Len(disk.data) : PushKeysSet(disk.data[i])
        /\ \A i \in 1..slice.len : Shown(slice)[i].Pushed

\* the records of the Flushes whose push failed are unpushed
FailedAreUnpushed ==
    /\ \A i \in 1..Len(records) :
          ledger.born[records[i].Hash] \in ledger.failed => ~records[i].Pushed
    /\ \A i \in 1..Len(disk.data) :
          ledger.born[disk.data[i].hash] \in ledger.failed => ~disk.data[i].pushed

\* C16: the records of a Flush whose push failed stay pushed = false, in
\* memory and in the file, and the MarkPushed of a later Flush leaves them
\* as they are.
C16_FailedPushStaysUnpushed ==
    [][ /\ FailedAreUnpushed'
        /\ lastCall'.op = "MarkPushed" =>
              \A i \in 1..Len(records) :
                  ledger.born[records[i].Hash] \in ledger.failed =>
                      records'[i] = records[i] ]_vars

\* the push of the first Flush failed, the push of the second succeeded:
\* the first record is unpushed next to a pushed one
C16_Witness ==
    /\ lastCall.op = "MarkPushed"
    /\ Len(records) >= 2
    /\ ledger.born[records[1].Hash] \in ledger.failed
    /\ ~records[1].Pushed
    /\ records[Len(records)].Pushed

\* r2 is r1 but for its push fields
SameButPushFields(r1, r2) ==
    [r2 EXCEPT !.Pushed = r1.Pushed, !.PushedAt = r1.PushedAt,
               !.Remote = r1.Remote, !.Branch = r1.Branch] = r1

\* C17: a Save or MarkPushed call removes no record and keeps the order:
\* Save adds its record at the end and changes no other, MarkPushed changes
\* only the push fields of the records whose hash it was given.
C17_HistoryIsAppendOnly ==
    [][lastCall'.op \in {"Save", "MarkPushed"} =>
        /\ Len(records') >= Len(records)
        /\ \A i \in 1..Len(records) :
              /\ SameButPushFields(records[i], records'[i])
              /\ records'[i] # records[i] =>
                    /\ lastCall'.op = "MarkPushed"
                    /\ records[i].Hash \in Range(lastCall'.hashes)
        /\ lastCall'.op = "Save" =>
              /\ Len(records') = Len(records) + 1
              /\ records'[Len(records')].Hash = lastCall'.hashes[1]
        /\ lastCall'.op = "MarkPushed" => Len(records') = Len(records)]_vars

\* a Save has added a third record behind a pushed and an unpushed one
C17_Witness ==
    /\ lastCall.op = "Save"
    /\ Len(records) = 3
    /\ records[3].Hash = lastCall.hashes[1]
    /\ \E i, j \in 1..2 : records[i].Pushed /\ ~records[j].Pushed

\* C18: when every write of the file has succeeded, a Reload, and a load
\* into a new Store, yield the records the store held in memory, in the
\* same order.
C18_ReloadRoundTrip ==
    [][(lastCall'.op \in {"Reload", "New"} /\ ledger.clean) =>
          records' = records]_vars

\* a new Store has loaded a file of two records, one of them pushed and
\* with a review that lists a fix
C18_Witness ==
    /\ lastCall.op = "New"
    /\ ledger.clean
    /\ Len(records) >= 2
    /\ \E i \in 1..Len(records) :
          /\ records[i].Pushed
          /\ records[i].Review # Nil
          /\ records[i].Review[1].FixesApplied # <<>>
    /\ \E i \in 1..Len(records) : ~records[i].Pushed

----------------------------------------------------------------------------
(***************************************************************************)
(* The watcher's debouncer (WatchSpec): the event loop of Watcher.Start    *)
(* and the callbacks of the timers it makes (internal/watcher/watcher.go). *)
(* `pending` is a local of Start that the callbacks capture; nothing       *)
(* guards it, so the loop and a callback are interleaved access by access. *)
(* Time is not counted: an armed timer may fire at any step, and the       *)
(* ledger keeps which events were accepted between two firings.            *)
(***************************************************************************)
\* events the loop accepts in one run
MaxEvents == 3

\* make(chan ChangeSet, 10)
ChanCap == 10

\* the callback of some timer is between its start and its end
CallbackRunning == \E t \in 1..Len(wtimers) : wtimers[t].st \in {"send", "clear"}

\* the names events can carry (relative to the root): two state files of
\* the daemon, a log file and a source file
WatchNames == {"a/x.go", ".gitpulse/history.json", ".gitpulse.pid", "debug.log"}

\* the directories of the tree under the root
WatchDirs == {".", "a", ".gitpulse"}

\* filepath.Dir and filepath.Base of the names and directories of the model
NameTable ==
    [n \in WatchNames \cup WatchDirs |->
        CASE n = "a/x.go"                 -> [dir |-> "a", base |-> "x.go"]
          [] n = ".gitpulse/history.json" -> [dir |-> ".gitpulse", base |-> "history.json"]
          [] n = ".gitpulse.pid"          -> [dir |-> ".", base |-> ".gitpulse.pid"]
          [] n = "debug.log"              -> [dir |-> ".", base |-> "debug.log"]
          [] n = "a"                      -> [dir |-> ".", base |-> "a"]
          [] n = ".gitpulse"              -> [dir |-> ".", base |-> ".gitpulse"]
          [] OTHER                        -> [dir |-> ".", base |-> "."]]

\* config.defaultConfig: IgnorePatterns
DefaultIgnore == <<"*.log", "node_modules/", ".git/", "vendor/", ".gitpulse/">>

\* the ignore_patterns the watcher can be made with: the default, and a
\* configured list that names log files only
IgnoreLists == {DefaultIgnore, <<"*.log">>}

\* strings.TrimSuffix(pattern, "/") on the patterns of the model
TrimSlash(pattern) ==
    CASE pattern = "node_modules/" -> "node_modules"
      [] pattern = ".git/"         -> ".git"
      [] pattern = "vendor/"       -> "vendor"
      [] pattern = ".gitpulse/"    -> ".gitpulse"
      [] OTHER                     -> pattern

\* filepath.Match on the patterns and base names of the model: "*.log"
\* matches a name that ends in .log, a pattern without a star matches itself
Match(pattern, base) ==
    IF pattern = "*.log" THEN base = "debug.log" ELSE pattern = base

\* Watcher.shouldIgnore: the base name is compared with every pattern
shouldIgnore(path, ignorePatterns) ==
    \E k \in 1..Len(ignorePatterns) :
        LET pattern == TrimSlash(ignorePatterns[k])
        IN  NameTable[path].base = pattern \/ Match(pattern, NameTable[path].base)

\* the directories filepath.Walk adds to fsWatcher: an ignored directory is
\* skipped (the tree of the model is one level deep)
Walked(ignorePatterns) == {d \in WatchDirs : ~shouldIgnore(d, ignorePatterns)}

\* case event := <-fsWatcher.Events, for a file in a watched directory:
\* dropped by shouldIgnore, or made a FileChange
Accept(path) ==
    /\ wloop.pc = "idle"
    /\ wledger.accepted < MaxEvents
    /\ NameTable[path].dir \in watcher.watched
    /\ IF shouldIgnore(path, watcher.ignorePatterns)
       THEN /\ wledger' = [wledger EXCEPT !.dropped = @ \cup {path}]
            /\ UNCHANGED wloop
       ELSE LET e == [Path |-> path, id |-> wledger.accepted + 1]
            IN  /\ wloop' = [wloop EXCEPT !.pc = "append", !.cur = e]
                /\ wledger' = [wledger EXCEPT !.accepted = @ + 1,
                                              !.burst = Append(@, e),
                                              !.raced = @ \/ CallbackRunning]
    /\ UNCHANGED <<watcher, wpending, wtimers, wevents>>
    /\ UNCHANGED <<engineVars, Interactive, pipeVars, storeVars, raceVars, gateVars, dashVars, cmdVars>>

\* pending = append(pending, FileChange{...}): the read of pending
PendingRead ==
    /\ wloop.pc = "append"
    /\ wloop' = [wloop EXCEPT !.pc = "write", !.h = wpending]
    /\ UNCHANGED <<watcher, wpending, wtimers, wevents, wledger>>
    /\ UNCHANGED <<engineVars, Interactive, pipeVars, storeVars, raceVars, gateVars, dashVars, cmdVars>>

\* pending = append(pending, FileChange{...}): the assignment
PendingWrite ==
    /\ wloop.pc = "write"
    /\ wpending' = Append(wloop.h, wloop.cur)
    /\ wloop' = [wloop EXCEPT !.pc = "stop", !.h = <<>>]
    /\ UNCHANGED <<watcher, wtimers, wevents, wledger>>
    /\ UNCHANGED <<engineVars, Interactive, pipeVars, storeVars, raceVars, gateVars, dashVars, cmdVars>>

\* if timer != nil { timer.Stop() }: a timer that has fired is not stopped
StopDebounce ==
    /\ wloop.pc = "stop"
    /\ wtimers' = IF wtimers # <<>> /\ wtimers[Len(wtimers)].st = "armed"
                  THEN [wtimers EXCEPT ![Len(wtimers)].st = "stopped"]
                  ELSE wtimers
    /\ wloop' = [wloop EXCEPT !.pc = "len"]
    /\ UNCHANGED <<watcher, wpending, wevents, wledger>>
    /\ UNCHANGED <<engineVars, Interactive, pipeVars, storeVars, raceVars, gateVars, dashVars, cmdVars>>

\* snapshot := make([]FileChange, len(pending))
SnapshotMake ==
    /\ wloop.pc = "len"
    /\ wloop' = [wloop EXCEPT !.pc = "copy", !.n = Len(wpending)]
    /\ UNCHANGED <<watcher, wpending, wtimers, wevents, wledger>>
    /\ UNCHANGED <<engineVars, Interactive, pipeVars, storeVars, raceVars, gateVars, dashVars, cmdVars>>

\* copy(snapshot, pending): as many elements as the shorter of the two has
SnapshotCopy ==
    /\ wloop.pc = "copy"
    /\ wloop' = [wloop EXCEPT
                    !.pc = "arm",
                    !.snapshot = [i \in 1..wloop.n |->
                                     IF i <= Len(wpending) THEN wpending[i]
                                                           ELSE ZeroChange]]
    /\ UNCHANGED <<watcher, wpending, wtimers, wevents, wledger>>
    /\ UNCHANGED <<engineVars, Interactive, pipeVars, storeVars, raceVars, gateVars, dashVars, cmdVars>>

\* timer = time.AfterFunc(2*time.Second, func() {...}): the callback
\* captures this round's snapshot
AfterFunc ==
    /\ wloop.pc = "arm"
    /\ wtimers' = Append(wtimers, [snapshot |-> wloop.snapshot, st |-> "armed"])
    /\ wloop' = IdleLoop
    /\ UNCHANGED <<watcher, wpending, wevents, wledger>>
    /\ UNCHANGED <<engineVars, Interactive, pipeVars, storeVars, raceVars, gateVars, dashVars, cmdVars>>

\* two seconds after AfterFunc the runtime starts the callback on a
\* goroutine of its own
DebounceFire(t) ==
    /\ wtimers[t].st = "armed"
    /\ wtimers' = [wtimers EXCEPT ![t].st = "send"]
    /\ wledger' = [wledger EXCEPT
                      !.closed = Append(@, [events |-> wledger.burst,
                                            clean |-> ~wledger.raced
                                                      /\ wloop.pc = "idle",
                                            timer |-> t]),
                      !.burst = <<>>,
                      !.raced = @ \/ wloop.pc # "idle"]
    /\ UNCHANGED <<watcher, wloop, wpending, wevents>>
    /\ UNCHANGED <<engineVars, Interactive, pipeVars, storeVars, raceVars, gateVars, dashVars, cmdVars>>

\* callback: w.events <- ChangeSet{Files: snapshot, Timestamp: time.Now()}
SendChangeSet(t) ==
    /\ wtimers[t].st = "send"
    /\ Len(wevents) < ChanCap
    /\ wevents' = Append(wevents, wtimers[t].snapshot)
    /\ wtimers' = [wtimers EXCEPT ![t].st = "clear"]
    /\ wledger' = [wledger EXCEPT
                      !.emitted = Append(@, [timer |-> t,
                                             Files |-> wtimers[t].snapshot])]
    /\ UNCHANGED <<watcher, wloop, wpending>>
    /\ UNCHANGED <<engineVars, Interactive, pipeVars, storeVars, raceVars, gateVars, dashVars, cmdVars>>

\* callback: pending = nil
ClearPending(t) ==
    /\ wtimers[t].st = "clear"
    /\ wpending' = <<>>
    /\ wtimers' = [wtimers EXCEPT ![t].st = "done"]
    /\ UNCHANGED <<watcher, wloop, wevents, wledger>>
    /\ UNCHANGED <<engineVars, Interactive, pipeVars, storeVars, raceVars, gateVars, dashVars, cmdVars>>

\* case event, ok := <-fsWatcher.Events (or Errors) with !ok: fsnotify has
\* closed its channels after a fatal error; the loop returns and the
\* deferred fsWatcher.Close() runs.  Nothing closes w.events.
LoopReturn ==
    /\ wloop.pc = "idle"
    /\ wloop' = [wloop EXCEPT !.pc = "returned"]
    /\ watcher' = [watcher EXCEPT !.watched = {}]
    /\ UNCHANGED <<wpending, wtimers, wevents, wledger>>
    /\ UNCHANGED <<engineVars, Interactive, pipeVars, storeVars, raceVars, gateVars, dashVars, cmdVars>>

\* Engine.Run: case changeset := <-e.watcher.Events()
ReceiveChangeSet ==
    /\ wevents # <<>> \/ watcher.eventsClosed
    /\ wevents' = IF wevents # <<>> THEN Tail(wevents) ELSE wevents
    /\ UNCHANGED <<watcher, wloop, wpending, wtimers, wledger>>
    /\ UNCHANGED <<engineVars, Interactive, pipeVars, storeVars, raceVars, gateVars, dashVars, cmdVars>>

\* watcher.New with the configured patterns; Start, after its Walk
WatchInit ==
    /\ EngineInit
    /\ Interactive = TRUE
    /\ PipeOff
    /\ StoreOff
    /\ GateOff
    /\ DashOff
    /\ CmdOff
    /\ \E patterns \in IgnoreLists :
          watcher = [ignorePatterns |-> patterns, watched |-> Walked(patterns),
                     eventsClosed |-> FALSE]
    /\ wloop = IdleLoop
    /\ wpending = <<>>
    /\ wtimers = <<>>
    /\ wevents = <<>>
    /\ wledger = NoWatchLedger

WatchNext ==
    \/ \E path \in WatchNames : Accept(path)
    \/ PendingRead
    \/ PendingWrite
    \/ StopDebounce
    \/ SnapshotMake
    \/ SnapshotCopy
    \/ AfterFunc
    \/ \E t \in 1..Len(wtimers) : DebounceFire(t)
    \/ \E t \in 1..Len(wtimers) : SendChangeSet(t)
    \/ \E t \in 1..Len(wtimers) : ClearPending(t)
    \/ ReceiveChangeSet
    \/ LoopReturn

WatchSpec == WatchInit /\ [][WatchNext]_vars

(***************************************************************************)
(* Claims about the watcher.                                               *)
(***************************************************************************)
\* the paths of s in the order of their first arrival, each once
RECURSIVE Dedup(_)
Dedup(s) ==
    IF s = <<>> THEN <<>>
    ELSE LET d == Dedup(SubSeq(s, 1, Len(s) - 1))
         IN  IF s[Len(s)] \in Range(d) THEN d ELSE Append(d, s[Len(s)])

\* the ChangeSets the callback of timer t has sent
SentBy(t) == {j \in 1..Len(wledger.emitted) : wledger.emitted[j].timer = t}

\* C19: a burst of accepted events with no timer firing between them, and
\* with no callback running while they are handled, gives exactly one
\* ChangeSet, whose files are the paths of the events in arrival order, each
\* path once.
C19_BurstGivesOneDeduplicatedChangeSet ==
    \A k \in 1..Len(wledger.closed) :
        LET b == wledger.closed[k]
        IN  (b.clean /\ b.events # <<>> /\ wtimers[b.timer].st \in {"clear", "done"})
            => /\ Cardinality(SentBy(b.timer)) = 1
               /\ \A j \in SentBy(b.timer) :
                     PathsOf(wledger.emitted[j].Files) = Dedup(PathsOf(b.events))

\* the same burst does give one ChangeSet with the events' paths in arrival
\* order when repeated paths are kept (not a claim of the list)
CleanBurstGivesItsEvents ==
    \A k \in 1..Len(wledger.closed) :
        LET b == wledger.closed[k]
        IN  (b.clean /\ b.events # <<>> /\ wtimers[b.timer].st \in {"clear", "done"})
            => /\ Cardinality(SentBy(b.timer)) = 1
               /\ \A j \in SentBy(b.timer) : wledger.emitted[j].Files = b.events

\* the loop waits in its select and no timer is armed or in its callback
WatcherQuiet ==
    /\ wloop.pc = "idle"
    /\ \A t \in 1..Len(wtimers) : wtimers[t].st \in {"stopped", "done"}

\* the ChangeSets sent that hold the FileChange of event id
CarriedBy(id) ==
    {j \in 1..Len(wledger.emitted) :
        \E i \in 1..Len(wledger.emitted[j].Files) :
            wledger.emitted[j].Files[i].id = id}

\* C20: however the timer callbacks interleave with the event loop, once
\* the watcher is quiet every accepted event is in exactly one of the
\* ChangeSets sent.
C20_EachEventInExactlyOneChangeSet ==
    WatcherQuiet =>
        \A id \in 1..wledger.accepted : Cardinality(CarriedBy(id)) = 1

\* C34: once the watcher's event loop has returned after a fatal error,
\* the events channel is closed, and when no timer callback is left to send
\* and the channel is drained, Run has returned: it does not wait on a
\* channel nobody will send on or close.
C34_FatalErrorClosesStreamAndEndsRun ==
    wloop.pc = "returned" =>
        /\ watcher.eventsClosed
        /\ ( /\ wevents = <<>>
             /\ \A t \in 1..Len(wtimers) : wtimers[t].st \in {"stopped", "done"} )
           => evPc = "returned"

\* the daemon's own state: what is under .gitpulse/, and the PID file
StatePaths == {".gitpulse/history.json", ".gitpulse.pid"}

\* C25: whatever ignore patterns are configured, no ChangeSet the watcher
\* sends holds a FileChange for a path under .gitpulse/ or for the PID file.
C25_StateFilesNeverInAChangeSet ==
    \A j \in 1..Len(wledger.emitted) :
        \A i \in 1..Len(wledger.emitted[j].Files) :
            wledger.emitted[j].Files[i].Path \notin StatePaths

----------------------------------------------------------------------------
(***************************************************************************)
(* The review gate with the working copy (GateSpec): one call of           *)
(* reviewLoopWithRecord (engine.go) in full, with handleReviewFindings,    *)
(* applyAIFixes finding by finding, GenerateFix (the patch version of      *)
(* internal/ai/review.go), the re-fetch of the diffs, and the              *)
(* CommitRecords processChanges then saves.  File contents are sequences   *)
(* of characters.                                                          *)
(***************************************************************************)
\* patches the LLM answers with during one gate
MaxPatches == 2

\* what every file of the working copy holds when the gate begins
InitialContents == {<<"a", "b", "a", "b">>, <<"b", "a">>}

\* fixPatch.OldCode and fixPatch.NewCode the LLM can answer with
OldCodes == {<<>>, <<"a">>, <<"b", "a">>, <<"c">>}
NewCodes == {<<>>, <<"c">>}

\* the LLM's answers to the fix call: callClaudeWithTokens fails, the text
\* is not JSON for a fixPatch, or it is a patch
FixAnswers ==
    {[kind |-> "transport"], [kind |-> "malformed"]}
    \cup {[kind |-> "patch", old_code |-> o, new_code |-> n] :
             o \in OldCodes, n \in NewCodes}

\* strings.Index from position i on: the first position at which old
\* occurs in s, 0 when there is none
RECURSIVE IndexFrom(_, _, _)
IndexFrom(s, old, i) ==
    IF i + Len(old) - 1 > Len(s) THEN 0
    ELSE IF SubSeq(s, i, i + Len(old) - 1) = old THEN i
    ELSE IndexFrom(s, old, i + 1)

\* strings.Contains
Contains(s, old) == IndexFrom(s, old, 1) # 0

\* a replacement of every occurrence
RECURSIVE ReplaceEvery(_, _, _)
ReplaceEvery(s, old, new) ==
    LET i == IndexFrom(s, old, 1)
    IN  IF i = 0 \/ old = <<>> THEN s
        ELSE SubSeq(s, 1, i - 1) \o new
             \o ReplaceEvery(SubSeq(s, i + Len(old), Len(s)), old, new)

\* strings.Replace(s, old, new, 1)
ReplaceFirst(s, old, new) ==
    LET i == IndexFrom(s, old, 1)
    IN  IF i = 0 THEN s
        ELSE SubSeq(s, 1, i - 1) \o new \o SubSeq(s, i + Len(old), Len(s))

\* ai.GenerateFix, given the LLM's answer
GenerateFix(primaryContent, answer) ==
    IF answer.kind = "transport" THEN [fixed |-> <<>>, err |-> TRUE]
    ELSE IF answer.kind = "malformed" THEN [fixed |-> <<>>, err |-> TRUE]
    ELSE IF answer.old_code = <<>> THEN [fixed |-> <<>>, err |-> TRUE]
    ELSE IF ~Contains(primaryContent, answer.old_code)
         THEN [fixed |-> <<>>, err |-> TRUE]
    ELSE [fixed |-> ReplaceFirst(primaryContent, answer.old_code, answer.new_code),
          err |-> FALSE]

\* git.GetFileDiff: a text made of the path and, for a file that is in
\* HEAD, the size of its HEAD version
GetFileDiff(path, head) ==
    CASE head[path] = "error" -> [d |-> [file |-> path, text |-> ""], err |-> TRUE]
      [] head[path] = "new"   -> [d |-> [file |-> path, text |-> "(new file)"],
                                  err |-> FALSE]
      [] OTHER                -> [d |-> [file |-> path, text |-> "(diff content)"],
                                  err |-> FALSE]

\* the diffs of a group's files, one after the other, with the text the
\* engine puts in when GetFileDiff fails
FetchDiffs(files, head) ==
    [k \in 1..Len(files) |->
        LET r == GetFileDiff(files[k], head)
        IN  IF r.err THEN [file |-> files[k], text |-> "(new or deleted file)"]
            ELSE r.d]

\* a re-fetch that adds to the diffs the group has
RefetchKeeping(diffs, files, head) == diffs \o FetchDiffs(files, head)

\* reviewLoopWithRecord: groups[i].Diffs = "" and then += for every file
Refetch(diffs, files, head) == FetchDiffs(files, head)

\* ai.ReviewFinding with its RelatedLocations (the files they name)
FindingAt(file, severity, related) ==
    [File |-> file, Severity |-> severity, RelatedLocations |-> related]

\* the paths some group of the flush lists
GroupedPaths(groups) ==
    UNION {Range(groups[k].Files) : k \in 1..Len(groups)}

\* the LLM's answers to the review call of the gate; the reviewer is given
\* the diffs and names files freely: f3 is a file of the working copy that
\* no group of the flush lists
GateReviewAnswers(groups) ==
    LET f1 == groups[1].Files[1]
        last == groups[Len(groups)].Files
        f2 == last[Len(last)]
        f3 == CHOOSE p \in Paths : p \notin GroupedPaths(groups)
    IN  { [ok |-> FALSE, findings |-> <<>>],
          [ok |-> TRUE, findings |-> <<FindingAt(f3, "error", {})>>],
          [ok |-> TRUE, findings |-> <<>>],
          [ok |-> TRUE, findings |-> <<FindingAt(f1, "info", {})>>],
          [ok |-> TRUE, findings |-> <<FindingAt(f1, "error", {f2})>>],
          [ok |-> TRUE, findings |-> <<FindingAt(f1, "critical", {}),
                                       FindingAt(f2, "info", {}),
                                       FindingAt(f2, "warning", {f1, ForeignPath})>>] }

\* an answer with a finding on a file that no group lists
NamesUngrouped(answer, groups) ==
    \E k \in 1..Len(answer.findings) :
        answer.findings[k].File \notin GroupedPaths(groups)

\* the refined groups that reach the gate
GateGroups ==
    { <<FileGroup(<<"a/x.go", "a/x_test.go">>, <<"name affinity", "a">>, LLMMessage)>>,
      <<FileGroup(<<"a/x.go">>, <<"singletons", "x.go">>, Sentinel),
        FileGroup(<<"b/y.go">>, <<"singletons", "y.go">>, Sentinel)>> }

\* HEAD: for each path whether it is in HEAD, new, or HEAD cannot be read
Heads ==
    { [p \in Paths |-> "tracked"],
      [p \in Paths |-> IF p = "a/x.go" THEN "new"
                       ELSE IF p = "b/y.go" THEN "error" ELSE "tracked"] }

\* what the operator does during WaitForManualFix: nothing (<<>>), or
\* the first file of the first group is given this content
ManualEdits == {<<>>, <<"c">>}

\* processChanges calls reviewLoopWithRecord(refined); the Diffs of the
\* groups are those of step 2 or, for groups the LLM made of files it was
\* not given, empty
GateInit ==
    /\ EngineInit
    /\ Interactive = TRUE
    /\ PipeOff
    /\ StoreOff
    /\ WatchOff
    /\ DashOff
    /\ CmdOff
    /\ \E gs \in GateGroups, c0 \in InitialContents, h \in Heads, fetched \in BOOLEAN :
          /\ ggroups = [k \in 1..Len(gs) |->
                           [Files |-> gs[k].Files, Reason |-> gs[k].Reason,
                            CommitMessage |-> gs[k].CommitMessage,
                            Diffs |-> IF fetched THEN FetchDiffs(gs[k].Files, h)
                                      ELSE <<>>]]
          /\ worktree = [content |-> [p \in Paths |-> c0], head |-> h]
    /\ gate = [IdleGate EXCEPT !.pc = "review"]
    /\ grecord = Nil
    /\ gledger = NoGateLedger

\* the head of the loop: the loop condition, ReviewCode, the new record,
\* and the two returns without a prompt
GateReview ==
    /\ gate.pc = "review"
    /\ IF ~LoopContinues(gate.iteration)
       THEN /\ gate' = [gate EXCEPT !.pc = "returned"]
            /\ UNCHANGED <<grecord, gledger>>
       ELSE \E answer \in GateReviewAnswers(ggroups) :
              LET result == ReviewCode(answer)
              IN  /\ NamesUngrouped(answer, ggroups) => gate.iteration = 0
                  /\ IF result.err
                     THEN /\ grecord' = RecordOnReviewError(grecord)
                          /\ gate' = [gate EXCEPT !.pc = "returned"]
                          /\ UNCHANGED gledger
                     ELSE /\ grecord' = NewReviewRecord(result)
                          /\ gate' = [gate EXCEPT
                                        !.pc = IF Len(result.Findings) = 0
                                                  \/ ~result.HasBlockers
                                               THEN "returned" ELSE "prompt",
                                        !.findings = result.Findings,
                                        !.hasBlockers = result.HasBlockers,
                                        !.action = "", !.fi = 0]
                          /\ gledger' = [gledger EXCEPT
                                           !.prev = gledger.round,
                                           !.round = [NoRound EXCEPT
                                                        !.n = gate.iteration + 1,
                                                        !.findings = result.Findings]]
    /\ UNCHANGED <<ggroups, worktree>>
    /\ UNCHANGED <<engineVars, Interactive, pipeVars, storeVars, raceVars, watchVars, dashVars, cmdVars>>

\* handleReviewFindings: PromptReviewAction and the switch on its action
GatePrompt ==
    /\ gate.pc = "prompt"
    /\ \E input \in PromptInputs :
         LET p == PromptReviewAction(input)
         IN  /\ gledger' = [gledger EXCEPT !.prompts = @ + 1,
                                           !.round.input = input]
             /\ gate' = IF p.err THEN [gate EXCEPT !.pc = "returned"]
                        ELSE IF p.action = "manual"
                        THEN [gate EXCEPT !.pc = "wait", !.action = p.action]
                        ELSE IF p.action = "aifix"
                        THEN [gate EXCEPT !.pc = "fix", !.action = p.action, !.fi = 1]
                        ELSE [gate EXCEPT !.pc = "track", !.action = p.action]
    /\ UNCHANGED <<ggroups, grecord, worktree>>
    /\ UNCHANGED <<engineVars, Interactive, pipeVars, storeVars, raceVars, watchVars, dashVars, cmdVars>>

\* handleReviewFindings, case "manual": WaitForManualFix, during which the
\* operator edits the working copy
GateWait ==
    /\ gate.pc = "wait"
    /\ \E waitOk \in BOOLEAN, edit \in ManualEdits :
         LET h == handleReviewFindings(gledger.round.input, waitOk)
         IN  /\ worktree' = IF edit = <<>> THEN worktree
                            ELSE [worktree EXCEPT
                                    !.content[ggroups[1].Files[1]] = edit]
             /\ gate' = IF h.err THEN [gate EXCEPT !.pc = "returned"]
                        ELSE [gate EXCEPT !.pc = "track", !.action = h.action]
    /\ UNCHANGED <<ggroups, grecord, gledger>>
    /\ UNCHANGED <<engineVars, Interactive, pipeVars, storeVars, raceVars, watchVars, dashVars, cmdVars>>

\* an applyAIFixes that asks for a fix of every finding
EligibleAny(finding) == TRUE

\* applyAIFixes: only blockers are fixed
Eligible(finding) ==
    ~(finding.Severity # SeverityError /\ finding.Severity # SeverityWarning)

\* applyAIFixes: one round of its loop over the findings
GateFix ==
    /\ gate.pc = "fix"
    /\ gate.fi <= Len(gate.findings)
    /\ LET f == gate.findings[gate.fi]
       IN  IF ~Eligible(f)
           THEN /\ gledger' = [gledger EXCEPT !.fix = NoFix]
                /\ UNCHANGED worktree
           ELSE \E readOk \in BOOLEAN :
                  /\ (f.File \notin DOMAIN worktree.content => ~readOk)
                  /\ IF ~readOk
                     THEN /\ gledger' = [gledger EXCEPT !.fix = NoFix]
                          /\ UNCHANGED worktree
                     ELSE \E answer \in FixAnswers, out \in WriteOutcomes :
                            LET before == worktree.content[f.File]
                                r == GenerateFix(before, answer)
                                context == {q \in f.RelatedLocations :
                                               q \in DOMAIN worktree.content}
                            IN  /\ (r.err => out = "ok")
                                /\ (answer.kind = "patch" =>
                                       gledger.patches < MaxPatches)
                                /\ worktree' =
                                      IF r.err \/ out = "fail" THEN worktree
                                      ELSE IF out = "partial"
                                      THEN [worktree EXCEPT !.content[f.File] = <<>>]
                                      ELSE [worktree EXCEPT !.content[f.File] = r.fixed]
                                /\ gledger' =
                                      [gledger EXCEPT
                                         !.fix = [file |-> f.File, before |-> before,
                                                  answer |-> answer,
                                                  context |-> context,
                                                  result |-> r,
                                                  wrote |-> ~r.err /\ out = "ok"],
                                         !.patches =
                                             IF answer.kind = "patch"
                                             THEN @ + 1 ELSE @,
                                         !.round.written =
                                             IF ~r.err /\ out = "ok"
                                             THEN @ \cup {gate.fi} ELSE @]
    /\ gate' = [gate EXCEPT !.fi = @ + 1,
                            !.pc = IF gate.fi + 1 > Len(gate.findings)
                                   THEN "track" ELSE "fix"]
    /\ UNCHANGED <<ggroups, grecord>>
    /\ UNCHANGED <<engineVars, Interactive, pipeVars, storeVars, raceVars, watchVars, dashVars, cmdVars>>

\* after handleReviewFindings has returned an action: record.Action, the
\* return on "continue", and the FixRecords
GateTrack ==
    /\ gate.pc = "track"
    /\ grecord' = <<[grecord[1] EXCEPT
                       !.Action = gate.action,
                       !.FixesApplied = @ \o FixesFor(gate.action, gate.findings)]>>
    /\ gate' = [gate EXCEPT !.pc = IF gate.action = "continue" THEN "returned"
                                   ELSE "refetch"]
    /\ gledger' = [gledger EXCEPT !.round.action = gate.action, !.fix = NoFix]
    /\ UNCHANGED <<ggroups, worktree>>
    /\ UNCHANGED <<engineVars, Interactive, pipeVars, storeVars, raceVars, watchVars, dashVars, cmdVars>>

\* the re-fetch of the diffs of every group, and iteration++
GateRefetch ==
    /\ gate.pc = "refetch"
    /\ ggroups' = [k \in 1..Len(ggroups) |->
                      [ggroups[k] EXCEPT
                          !.Diffs = Refetch(@, ggroups[k].Files, worktree.head)]]
    /\ gate' = [gate EXCEPT !.pc = "review", !.iteration = @ + 1]
    /\ UNCHANGED <<grecord, worktree, gledger>>
    /\ UNCHANGED <<engineVars, Interactive, pipeVars, storeVars, raceVars, watchVars, dashVars, cmdVars>>

\* processChanges steps 4 and 4.5 when the index reset, the staging and the
\* commit of every group succeed: one CommitRecord per group, each with the
\* record the gate returned
GateSave ==
    /\ gate.pc = "returned"
    /\ gate' = [gate EXCEPT !.pc = "saved"]
    /\ gledger' = [gledger EXCEPT
                     !.saved = [k \in 1..Len(ggroups) |-> CommitRecord(k, grecord)]]
    /\ UNCHANGED <<ggroups, grecord, worktree>>
    /\ UNCHANGED <<engineVars, Interactive, pipeVars, storeVars, raceVars, watchVars, dashVars, cmdVars>>

GateNext ==
    \/ GateReview
    \/ GatePrompt
    \/ GateWait
    \/ GateFix
    \/ GateTrack
    \/ GateRefetch
    \/ GateSave

GateSpec == GateInit /\ [][GateNext]_vars

(***************************************************************************)
(* Claims about the review gate.                                           *)
(***************************************************************************)
\* the positions of the findings that block
Blockers(findings) ==
    {k \in 1..Len(findings) :
        findings[k].Severity \in {SeverityError, SeverityWarning}}

\* C21: when the operator chose aifix in the first round for the one
\* blocker, its patch was written, and the second ReviewCode call returned
\* no findings, every CommitRecord saved for the Flush has a review record
\* with action aifix and one FixRecord of kind ai for that finding.
C21_AifixIsInTheCommitRecord ==
    ( /\ gate.pc = "saved"
      /\ gledger.round.n = 2
      /\ gledger.round.findings = <<>>
      /\ gledger.prev.action = "aifix"
      /\ Cardinality(Blockers(gledger.prev.findings)) = 1
      /\ Blockers(gledger.prev.findings) \subseteq gledger.prev.written )
    => /\ gledger.saved # <<>>
       /\ \A k \in 1..Len(gledger.saved) :
             /\ gledger.saved[k].Review # Nil
             /\ gledger.saved[k].Review[1].Action = "aifix"
             /\ \E b \in Blockers(gledger.prev.findings) :
                   gledger.saved[k].Review[1].FixesApplied
                       = <<FixRecord(gledger.prev.findings[b].File, "ai")>>

\* the positions at which old occurs in the content c
OccursAt(c, old) ==
    {i \in 1..(Len(c) - Len(old) + 1) : SubSeq(c, i, i + Len(old) - 1) = old}

\* C22: for a patch whose old_code is not empty and occurs in the content
\* read from the primary file, GenerateFix returns that content with the
\* first occurrence of old_code replaced by new_code and everything else as
\* it was, and this is what a successful write puts in the file; for a
\* patch whose old_code is empty or does not occur, GenerateFix returns an
\* error, the working copy stays as it is and applyAIFixes goes on to the
\* next finding.
C22_PatchReplacesFirstOccurrence ==
    [][ (gate.pc = "fix" /\ gledger'.fix.answer.kind = "patch") =>
          LET fx == gledger'.fix
              c == fx.before
              old == fx.answer.old_code
              new == fx.answer.new_code
              occ == OccursAt(c, old)
          IN  IF old = <<>> \/ occ = {}
              THEN /\ fx.result.err
                   /\ worktree' = worktree
                   /\ gate'.fi = gate.fi + 1
                   /\ gate'.pc = IF gate.fi < Len(gate.findings) THEN "fix" ELSE "track"
              ELSE \E i \in occ :
                     /\ \A j \in occ : i <= j
                     /\ ~fx.result.err
                     /\ fx.result.fixed
                          = SubSeq(c, 1, i - 1) \o new \o SubSeq(c, i + Len(old), Len(c))
                     /\ fx.wrote =>
                          worktree'.content
                            = [worktree.content EXCEPT ![fx.file] = fx.result.fixed]
      ]_vars

\* a patch was written whose old_code occurred twice in the file
C22_Witness ==
    /\ gledger.fix.wrote
    /\ Cardinality(OccursAt(gledger.fix.before, gledger.fix.answer.old_code)) = 2
    /\ worktree.content[gledger.fix.file] # gledger.fix.before

\* the operator typed a line that, trimmed, is none of 1, 2 and 3
InvalidChoice(line) ==
    /\ line \notin {"EOF", "(no prompt)"}
    /\ TrimSpace(line) \notin {"1", "2", "3"}

\* C23: a line other than 1, 2 or 3 at the prompt is taken as continue: no
\* fix is requested and the working copy is not written, the review record
\* gets the action continue and no FixRecord, the loop returns, and the
\* commits of the Flush are made and saved with that record.
C23_InvalidChoiceIsContinue ==
    [][ InvalidChoice(gledger'.round.input) =>
          /\ worktree' = worktree
          /\ gledger'.fix = NoFix
          /\ gate.pc = "prompt" => gate'.pc = "track" /\ gate'.action = "continue"
          /\ gate.pc = "track" =>
                /\ gate'.pc = "returned"
                /\ grecord'[1].Action = "continue"
                /\ grecord'[1].FixesApplied = <<>>
          /\ gate.pc = "returned" =>
                /\ gate'.pc = "saved"
                /\ Len(gledger'.saved) = Len(ggroups)
                /\ \A k \in 1..Len(gledger'.saved) :
                      gledger'.saved[k].Review = grecord
      ]_vars

\* the operator typed x and the commits were saved with the action continue
C23_Witness ==
    /\ gate.pc = "saved"
    /\ gledger.round.input = "x"
    /\ gledger.saved # <<>>
    /\ gledger.saved[1].Review[1].Action = "continue"

\* C26: once the operator's action has been tracked, after aifix every
\* FixRecord of the review record is of kind ai and for a finding whose
\* patch was generated and written in this round, so a blocker whose file
\* could not be read or whose patch could not be generated, applied or
\* written has none; after manual the review record holds exactly one
\* FixRecord, of kind manual.
C26_FixRecordOnlyForWrittenPatch ==
    (gate.pc = "refetch" /\ grecord # Nil) =>
        LET fixes == grecord[1].FixesApplied
        IN  /\ gledger.round.action = "aifix" =>
                 \A i \in 1..Len(fixes) :
                    /\ fixes[i].FixType = "ai"
                    /\ \E k \in gledger.round.written :
                          gledger.round.findings[k].File = fixes[i].File
            /\ gledger.round.action = "manual" =>
                 fixes = <<FixRecord("multiple", "manual")>>

\* C27: a step prompts the operator only when the engine is interactive and
\* the findings of the current review result include one of severity error
\* or warning; a ReviewCode call that returns no findings, or findings of
\* severity info only, is followed by no prompt: processChanges goes on to
\* step 4 with a review record whose action is empty.
C27_PromptOnlyForBlockers ==
    [][ /\ review'.prompts > review.prompts =>
              /\ Interactive
              /\ reviewRecord # Nil
              /\ Blockers(reviewRecord[1].Findings) # {}
        /\ ( /\ review'.calls > review.calls
             /\ reviewRecord' # Nil
             /\ Blockers(reviewRecord'[1].Findings) = {} ) =>
              /\ review'.prompts = review.prompts
              /\ ppc' = "reset"
              /\ reviewRecord'[1].Action = ""
              /\ reviewRecord'[1].FixesApplied = <<>>
      ]_vars

\* an interactive gate left without a prompt after info-only findings
C27_Witness ==
    /\ Interactive
    /\ ppc = "reset"
    /\ review.calls = 1
    /\ review.prompts = 0
    /\ reviewRecord # Nil
    /\ Len(reviewRecord[1].Findings) > 0
    /\ Blockers(reviewRecord[1].Findings) = {}
    /\ reviewRecord[1].Action = ""

\* the combined diff of every group is the one built from HEAD, file by
\* file in the order of the group's files, and holds nothing else
Rebuilt(groups, head) ==
    \A k \in 1..Len(groups) :
        /\ Len(groups[k].Diffs) = Len(groups[k].Files)
        /\ \A i \in 1..Len(groups[k].Files) :
              LET f == groups[k].Files[i]
              IN  /\ groups[k].Diffs[i].file = f
                  /\ groups[k].Diffs[i].text =
                        IF head[f] = "tracked" THEN "(diff content)"
                        ELSE IF head[f] = "new" THEN "(new file)"
                        ELSE "(new or deleted file)"

\* C28: a tracked manual or aifix action is followed by the re-fetch; the
\* re-fetch leaves every group with a combined diff that holds exactly what
\* the VCS gives for each of its files, and with the files, reason and
\* commit message it had; every ReviewCode call after the first is made on
\* groups whose diffs are the rebuilt ones.
C28_RefetchRebuildsDiffsOnly ==
    [][ /\ (gate.pc = "track" /\ gate.action \in {"manual", "aifix"}) =>
              gate'.pc = "refetch"
        /\ gate.pc = "refetch" =>
              /\ Rebuilt(ggroups', worktree.head)
              /\ Len(ggroups') = Len(ggroups)
              /\ \A k \in 1..Len(ggroups) :
                    /\ ggroups'[k].Files = ggroups[k].Files
                    /\ ggroups'[k].Reason = ggroups[k].Reason
                    /\ ggroups'[k].CommitMessage = ggroups[k].CommitMessage
        /\ (gate.pc = "review" /\ gledger'.round.n > 1
                               /\ gledger'.round.n > gledger.round.n) =>
              Rebuilt(ggroups, worktree.head)
      ]_vars

\* the second ReviewCode call has been made, after a re-fetch that replaced
\* diffs that were there
C28_Witness ==
    /\ gledger.round.n = 2
    /\ gledger.prev.action \in {"manual", "aifix"}
    /\ Len(ggroups) = 2
    /\ ggroups[2].Diffs = <<[file |-> "b/y.go", text |-> "(new or deleted file)"]>>

\* C29: a round of applyAIFixes changes no file other than the primary file
\* of its finding, and that one only when the finding's severity is error
\* or warning; for a finding of severity info there is no GenerateFix call
\* and no write; the files named as related locations are the ones read as
\* context; outside applyAIFixes only the operator's own edit during the
\* manual wait changes the working copy.
C29_FixWritesOnlyThePrimaryFileOfABlocker ==
    [][ /\ gate.pc = "fix" =>
              LET f == gate.findings[gate.fi]
                  fx == gledger'.fix
              IN  /\ \A p \in DOMAIN worktree.content :
                        worktree'.content[p] # worktree.content[p] =>
                            /\ p = f.File
                            /\ f.Severity \in {SeverityError, SeverityWarning}
                  /\ worktree'.head = worktree.head
                  /\ f.Severity = SeverityInfo =>
                        /\ fx = NoFix
                        /\ gledger'.patches = gledger.patches
                        /\ gledger'.round.written = gledger.round.written
                        /\ worktree' = worktree
                  /\ fx # NoFix =>
                        /\ fx.file = f.File
                        /\ f.Severity \in {SeverityError, SeverityWarning}
                        /\ fx.context \subseteq f.RelatedLocations
        /\ worktree' # worktree => gate.pc \in {"fix", "wait"}
      ]_vars

\* applyAIFixes is through with findings of which one is info and two are
\* blockers that name each other's file as related: both patches were
\* written
C29_Witness ==
    /\ gate.pc = "track"
    /\ gate.action = "aifix"
    /\ Len(gate.findings) = 3
    /\ \E k \in 1..3 : gate.findings[k].Severity = SeverityInfo
    /\ Cardinality(gledger.round.written) = 2

\* C37: applyAIFixes writes only to files that are members of the groups
\* being flushed: a blocker whose file, as the reviewer returned it, is in
\* no flushed group causes no write.  Over every step of applyAIFixes: a
\* file whose content the step changes is listed by some group.
C37_FixWritesOnlyFilesOfTheFlushedGroups ==
    [][ gate.pc = "fix" =>
            \A p \in Paths :
                worktree'.content[p] # worktree.content[p] =>
                    p \in GroupedPaths(ggroups) ]_vars

----------------------------------------------------------------------------
(***************************************************************************)
(* The push command (PushSpec): `gitpulse push` reads the PID file, parses *)
(* it and sends SIGUSR1 (main.go pushCmd).  The directory the PID file is  *)
(* looked up in (-C) is left out: the file is the one of that directory.   *)
(***************************************************************************)
\* what the PID file can hold; "absent": there is no such file.  The daemon
\* writes strconv.Itoa(os.Getpid()), here 4242
PidFiles == {"absent", "4242", "7", "0", "-1", "-5", "", "abc", "4242\n"}

\* strconv.Atoi on the contents of the model: an optional sign and decimal
\* digits, nothing else
Atoi(data) ==
    CASE data = "4242" -> [n |-> 4242, err |-> FALSE]
      [] data = "7"    -> [n |-> 7, err |-> FALSE]
      [] data = "0"    -> [n |-> 0, err |-> FALSE]
      [] data = "-1"   -> [n |-> -1, err |-> FALSE]
      [] data = "-5"   -> [n |-> -5, err |-> FALSE]
      [] OTHER         -> [n |-> 0, err |-> TRUE]

\* what kill(2) can reach: the daemon, another process, and (as -5) the
\* process group 5
KillTargets == {4242, 7, -5}

\* os.Process.Signal: an error for the pids -1 and 0, else kill(pid, sig),
\* which fails when there is no such process or group
Signal(pid, world) ==
    IF pid = -1 \/ pid = 0 THEN [sent |-> {}, err |-> TRUE]
    ELSE IF pid \in world THEN [sent |-> {pid}, err |-> FALSE]
    ELSE [sent |-> {}, err |-> TRUE]

\* os.Exit(code) after a line on standard error
Fail(p, diagnostic) == [p EXCEPT !.pc = "exited", !.exit = 1, !.stderr = diagnostic]

PushInit ==
    /\ EngineInit
    /\ Interactive = TRUE
    /\ PipeOff
    /\ StoreOff
    /\ WatchOff
    /\ GateOff
    /\ DashOff
    /\ \E file \in PidFiles, world \in SUBSET KillTargets :
          pushc = [NoPush EXCEPT !.pc = "read", !.file = file, !.world = world]

\* data, err := os.ReadFile(pidFile)
PushRead ==
    /\ pushc.pc = "read"
    /\ \E readOk \in BOOLEAN :
         /\ pushc.file = "absent" => ~readOk
         /\ pushc' = IF readOk THEN [pushc EXCEPT !.pc = "parse"]
                     ELSE Fail(pushc, "GitPulse daemon is not running")
    /\ UNCHANGED <<engineVars, Interactive, pipeVars, storeVars, raceVars, watchVars, gateVars, dashVars>>

\* pid, err := strconv.Atoi(string(data))
PushParse ==
    /\ pushc.pc = "parse"
    /\ LET a == Atoi(pushc.file)
       IN  pushc' = IF a.err THEN Fail(pushc, "Invalid PID file")
                     ELSE [pushc EXCEPT !.pc = "find", !.pid = a.n]
    /\ UNCHANGED <<engineVars, Interactive, pipeVars, storeVars, raceVars, watchVars, gateVars, dashVars>>

\* proc, err := os.FindProcess(pid), which can fail outside Unix
PushFind ==
    /\ pushc.pc = "find"
    /\ \E findOk \in BOOLEAN :
         pushc' = IF findOk THEN [pushc EXCEPT !.pc = "signal"]
                  ELSE Fail(pushc, "Could not find daemon process")
    /\ UNCHANGED <<engineVars, Interactive, pipeVars, storeVars, raceVars, watchVars, gateVars, dashVars>>

\* proc.Signal(syscall.SIGUSR1), and the line on standard output
PushSignal ==
    /\ pushc.pc = "signal"
    /\ LET r == Signal(pushc.pid, pushc.world)
       IN  pushc' = IF r.err THEN Fail(pushc, "Failed to signal daemon")
                     ELSE [pushc EXCEPT !.pc = "exited", !.exit = 0,
                                        !.signalled = r.sent,
                                        !.stdout = "Sent push signal"]
    /\ UNCHANGED <<engineVars, Interactive, pipeVars, storeVars, raceVars, watchVars, gateVars, dashVars>>

PushNext ==
    \/ PushRead
    \/ PushParse
    \/ PushFind
    \/ PushSignal

PushSpec == PushInit /\ [][PushNext]_vars

(***************************************************************************)
(* Claims about the push command.                                          *)
(***************************************************************************)
\* the PID file holds a decimal PID: digits that name a process id
HoldsDecimalPid(file) == file \in {"4242", "7"}

\* C35: when the push command has ended, a missing PID file or one that
\* does not hold a decimal PID has given a non-zero exit, a line on
\* standard error and no signal; a failed signal has given a non-zero
\* exit; and the exit is 0 only when the signal was sent.
C35_PushExitsZeroOnlyAfterSignal ==
    pushc.pc = "exited" =>
        /\ ~HoldsDecimalPid(pushc.file) =>
              /\ pushc.exit # 0
              /\ pushc.stderr # ""
              /\ pushc.signalled = {}
        /\ pushc.stderr = "Failed to signal daemon" => pushc.exit # 0
        /\ pushc.exit = 0 => pushc.signalled # {}

----------------------------------------------------------------------------
(***************************************************************************)
(* The dashboard server (DashSpec): `gitpulse dashboard` opens a Store on  *)
(* the history file and serves requests from it (main.go dashboardCmd,     *)
(* internal/dashboard/handler.go).  Requests are served one at a time.     *)
(* The handler for /api/files reads CommitRecord.Files, which the records  *)
(* of the model do not carry, and is left out.                             *)
(***************************************************************************)
\* a history as the daemon leaves it in the file: record k was saved at
\* time k; the pushed ones were marked at a later time
HistoryOf(n, revs, pushed) ==
    [k \in 1..n |->
        IF pushed[k]
        THEN [CommitRecord(k, revs[k]) EXCEPT !.CreatedAt = k, !.Pushed = TRUE,
                                              !.PushedAt = <<n + 1>>,
                                              !.Remote = Remote, !.Branch = Branch]
        ELSE [CommitRecord(k, revs[k]) EXCEPT !.CreatedAt = k]]

\* dashboardCmd: store.New(historyPath), dashboard.NewServer
DashInit ==
    /\ EngineInit
    /\ Interactive = TRUE
    /\ PipeOff
    /\ WatchOff
    /\ GateOff
    /\ DashOff
    /\ CmdOff
    /\ clock = 0
    /\ hflush = IdleFlush
    /\ lastCall = NoCall
    /\ ledger = NoLedger
    /\ heap = <<>>
    /\ slice = NilSlice
    /\ racer = [t \in Flushers |-> IdleRacer]
    /\ \E n \in 0..MaxCommits :
         \E revs \in [1..n -> ReviewValues], pushed \in [1..n -> BOOLEAN] :
            /\ disk = IF n = 0 THEN NoFile
                      ELSE JsonFile(Marshal(HistoryOf(n, revs, pushed)))
            /\ records = load(<<>>, disk).records

\* the slice with its elements in the opposite order
Reversed(recs) == [k \in 1..Len(recs) |-> recs[Len(recs) + 1 - k]]

\* Store.All: the slice Store.records itself
All(recs) == recs

\* handleHistory: the swaps are made in the slice All returned, which is
\* Store.records
handleHistory ==
    /\ records' = Reversed(All(records))
    /\ response' = [kind |-> "history", body |-> Marshal(records')]
    /\ UNCHANGED <<disk, clock, hflush, lastCall, ledger>>
    /\ UNCHANGED <<engineVars, Interactive, pipeVars, raceVars, watchVars, gateVars, cmdVars>>

\* Store.Stats, without the counts taken from CommitRecord.Files
Stats(recs) ==
    [total_commits |-> Len(recs),
     reviews_run |-> Cardinality({k \in 1..Len(recs) : recs[k].Review # Nil}),
     reviews_blocked |-> Cardinality({k \in 1..Len(recs) :
                                        /\ recs[k].Review # Nil
                                        /\ recs[k].Review[1].HasBlockers})]

\* handleStats
handleStats ==
    /\ response' = [kind |-> "stats", body |-> Stats(records)]
    /\ UNCHANGED storeVars
    /\ UNCHANGED <<engineVars, Interactive, pipeVars, raceVars, watchVars, gateVars, cmdVars>>

\* Store.GetByHash: the first record with the hash, Nil when there is none
GetByHash(recs, hash) ==
    LET found == {k \in 1..Len(recs) : recs[k].Hash = hash}
    IN  IF found = {} THEN Nil
        ELSE <<recs[CHOOSE k \in found : \A j \in found : k <= j]>>

\* handleCommitByHash for /api/commits/<hash>
handleCommitByHash(hash) ==
    /\ response' = LET r == GetByHash(records, hash)
                   IN  IF r = Nil THEN [kind |-> "not found", body |-> <<>>]
                       ELSE [kind |-> "commit", body |-> MarshalRecord(r[1])]
    /\ UNCHANGED storeVars
    /\ UNCHANGED <<engineVars, Interactive, pipeVars, raceVars, watchVars, gateVars, cmdVars>>

DashNext ==
    \/ handleHistory
    \/ handleStats
    \/ \E hash \in 1..(MaxCommits + 1) : handleCommitByHash(hash)

DashSpec == DashInit /\ [][DashNext]_vars

(***************************************************************************)
(* Claims about the dashboard.                                             *)
(***************************************************************************)
\* the records of a response, each saved no earlier than the one after it
NewestFirst(body) ==
    \A i, j \in 1..Len(body) : i < j => body[i].created_at >= body[j].created_at

\* C24: the response to every GET /api/history lists the records newest
\* first, whatever requests were served before it.
C24_HistoryIsNewestFirst ==
    response.kind = "history" => NewestFirst(response.body)

----------------------------------------------------------------------------
(***************************************************************************)
(* The engine's tasks (Spec).                                              *)
(***************************************************************************)
Init ==
    /\ EngineInit
    /\ Interactive = TRUE
    /\ PipeOff
    /\ StoreOff
    /\ WatchOff
    /\ GateOff
    /\ DashOff
    /\ CmdOff

Next ==
    \/ \E ps \in SeqsUpTo(Paths, MaxSetLen), src \in {"none"} \cup Flushers :
          bufferChanges(ps, src)
    \/ resetSafetyTimer
    \/ RunReturn
    \/ TimerFire
    \/ TimerCallback
    \/ MainStdin
    \/ MainSignal
    \/ Stop
    \/ Exit
    \/ \E t \in Flushers : FlushDrain(t)
    \/ \E t \in Flushers : FlushStopTimer(t)
    \/ \E t \in Flushers : processChangesReturn(t)
    \/ \E t \in Flushers : FlushReturn(t)

Spec == Init /\ [][Next]_vars

\* every task that is ready to take a step takes it; an armed timer fires.
\* Change events, ENTER, SIGUSR1 and quit are the environment's and may
\* never come.
FairSpec ==
    /\ Spec
    /\ WF_vars(resetSafetyTimer)
    /\ WF_vars(TimerFire)
    /\ WF_vars(TimerCallback)
    /\ \A t \in Flushers :
          /\ WF_vars(FlushDrain(t))
          /\ WF_vars(FlushStopTimer(t))
          /\ WF_vars(processChangesReturn(t))
          /\ WF_vars(FlushReturn(t))

----------------------------------------------------------------------------
(***************************************************************************)
(* Claims about the engine's tasks (Spec, FairSpec).                       *)
(***************************************************************************)
InPipeline(t) == fl[t].pc = "running"

\* ids of the FileChanges of a sequence
Ids(files) == [k \in 1..Len(files) |-> files[k].id]

\* C1: at most one call of processChanges is executing at any time, for
\* every interleaving of the ENTER trigger, the SIGUSR1 trigger and the
\* safety-timer callback.
C1_OnePipelineAtATime ==
    Cardinality({t \in Flushers : InPipeline(t)}) <= 1

\* C2: every FileChange appended by bufferChanges is in exactly one place:
\* still in the buffer, drained by one Flush that is about to hand it over,
\* or handed to processChanges exactly once.
C2_BufferConservation ==
    \A i \in 0..(nextId - 1) :
        LET inBuffer == Occurrences(Ids(pending), i)
            inDrain(t) == IF fl[t].pc = "cancel"
                          THEN Occurrences(Ids(fl[t].files), i) ELSE 0
        IN  inBuffer + inDrain("main") + inDrain("timer") + handed[i] = 1

\* two Flushes have drained and handed over, and the buffer has filled again
C2_Witness ==
    /\ \A t \in Flushers : InPipeline(t)
    /\ pending # <<>>
    /\ \E i \in DOMAIN handed : handed[i] = 1

\* C4: when the buffer is non-empty and no further change event or operator
\* trigger arrives, the safety timer fires and a Flush drains the buffer
\* (unless the operator quits).
C4_SafetyTimerDrains ==
    [](pending # <<>> => <>(pending = <<>> \/ done))

C33_NoFlushAfterStop ==
    [][ done =>
          /\ safetyTimer' # "armed"
          /\ \A t \in Flushers : fl'[t].pc = "flush" => fl[t].pc = "flush"
      ]_vars

\* C38: a file written by applyAIFixes, or edited by the operator during
\* the manual-fix pause, is not left in the pending buffer when the Flush
\* in progress returns.  When processChanges has returned to Flush, no
\* change that the watcher reported for a write made through that Flush's
\* gate is in the buffer.
C38_GateEditsAreNotLeftPending ==
    \A t \in Flushers :
        fl[t].pc = "done" =>
            \A k \in 1..Len(pending) : pending[k].id \notin fl[t].edits

\* C40: processChanges is never invoked with an empty ChangeSet: a
\* safety-timer callback or trigger that finds the buffer empty returns
\* without running the pipeline, also when another Flush drained the buffer
\* between the callback's non-empty check and its call to Flush.  A Flush
\* that is about to call processChanges, or is in it, holds a ChangeSet
\* with at least one FileChange; a Flush at its "Nothing to flush" line
\* holds none and has handed nothing over.
C40_PipelineNeverGetsAnEmptyChangeSet ==
    \A t \in Flushers :
        /\ fl[t].pc \in {"cancel", "running"} => Len(fl[t].files) > 0
        /\ fl[t].pc = "nothing" => fl[t].files = <<>>

\* the timer's callback saw a non-empty buffer, the main task's Flush
\* drained it and is in processChanges, and the callback's Flush has found
\* the buffer empty
C40_Witness ==
    /\ fl["timer"].pc = "nothing"
    /\ fl["timer"].trigger = "timer"
    /\ InPipeline("main")
    /\ pending = <<>>

====
